---- MODULE Spec2Model ----
(***************************************************************************)
(* A model of the cluster-facing layer of the lissto CLI:                  *)
(*   - traffic readiness of a service (CheckServiceReadiness and           *)
(*     FormatReadinessStatus, as driven by displayURLsTable),              *)
(*   - the port-forward tunnel and endpoint discovery (SetupPortForward,   *)
(*     startPortForward, DiscoverAPIEndpointFast),                         *)
(*   - the log multiplexer (runLogs and StreamLogsMulti).                  *)
(* Each subsystem has its own specification; the variables of the other    *)
(* subsystems stay at their initial values.                                *)
(***************************************************************************)
EXTENDS Integers, Sequences, FiniteSets, TLC

VARIABLES
    \* ---- readiness (status command) ----
    rpc,          \* position in displayURLsTable / CheckServiceReadiness
    serviceAge,   \* time.Since(stack.CreationTimestamp), in seconds
    rpods,        \* the pods handed to CheckServiceReadiness
    svcErr,       \* GetService returned an error
    ingress,      \* what GetIngressForService returned
    endpointSlices, \* what ListEndpointSlices returned
    readiness,    \* the TrafficReadiness being built
    stages,       \* the stages CheckServiceReadiness has evaluated, in order
    readyStatus,  \* the string displayed in the Ready column
    \* ---- tunnel and discovery (login, client construction) ----
    entry,        \* the entry point running: DiscoverAPIEndpointFast or DiscoverAPIEndpoint
    dpc,          \* position of the entry point
    spc,          \* position in SetupPortForward / startPortForward
    setupCalls,   \* calls of SetupPortForward made so far
    setupErr,     \* the error SetupPortForward returned ("" for none)
    service,      \* the service GetService returned
    svcPods,      \* the pods ListPods returned, until the target pod is chosen from them
    targetPod,    \* the pod forwarded to
    targetPort,   \* the remote port
    localPort,    \* the local port variable of SetupPortForward
    port,         \* the loop variable of findAvailablePort
    portWasBusy,  \* isPortAvailable(localPort) answered false on entry
    others,       \* local ports held by other processes
    fwd,          \* the forwarder goroutine: none, dialing, listening, exited
    held,         \* the local port the forwarder listens on (0: none)
    readyChan,    \* "open" or "closed"
    stopChan,     \* "none", "open" or "closed"
    ctxDone,      \* the caller's context is cancelled
    resp,         \* the response of the health probe
    info,         \* the APIDiscoveryInfo returned
    derr,         \* the error the entry point returned ("" for none)
    stopOwner,    \* who holds the release function
    releaseCalls, \* calls of the release function made by the caller
    tpanic,       \* the panic that ended the process ("" for none)
    \* ---- log multiplexer (logs command) ----
    lpc,          \* position of runLogs' main goroutine
    filteredPods, \* the pods selected for the session
    logsMaxPods,  \* the --max-pods flag
    logsContainer, \* the --container flag (0: unset)
    cancelled,    \* logCtx is cancelled
    gpc,          \* position of runLogs' streaming goroutine
    nsTodo,       \* namespaces still to be streamed
    curNs,        \* the namespace of the running StreamLogsMulti call
    received,     \* values the wait loop of StreamLogsMulti has received
    lastErr,      \* lastErr of StreamLogsMulti
    streamErr,    \* streamErr of the streaming goroutine
    errCh,        \* per namespace, the errCh of its StreamLogsMulti call
    ppc,          \* per pod, the position of its goroutine
    cidx,         \* per pod, the index of the container being streamed
    lineNo,       \* per pod, lines scanned from the current stream
    openCalls,    \* calls of StreamLogs made
    openFailed,   \* the (pod, container) pairs whose StreamLogs call failed
    openStreams,  \* the streams opened and not yet closed
    logChan,      \* the lines buffered in logChan
    logChanClosed, \* logChan is closed
    errChan,      \* the buffer of runLogs' errChan
    delivered,    \* per pod, the lines printed, in order
    lresult,      \* the error runLogs returned
    lpanic,       \* the panic that ended the process ("" for none)
    \* ---- MCP server ----
    mpc,          \* position of Run: running, stopped or failed
    mlines,       \* the lines read from stdin, in order
    replies,      \* per line read, the responses written while handling it
    stdout,       \* the responses written to stdout, in order
    \* ---- file cache ----
    cnow,         \* the wall clock
    dirMade,      \* the cache directory exists
    files,        \* per path, the entry file stored there
    hist,         \* per key, the last operation on it that succeeded
    call          \* the last call made and what it returned

rvars == <<rpc, serviceAge, rpods, svcErr, ingress, endpointSlices, readiness,
           stages, readyStatus>>

svars == <<spc, setupErr, service, svcPods, targetPod, targetPort, localPort,
           port, portWasBusy>>
fvars == <<fwd, held, readyChan, stopChan>>
dvars == <<entry, dpc, setupCalls, resp, info, derr, stopOwner, releaseCalls,
           tpanic>>
tvars == <<svars, fvars, dvars, others, ctxDone>>

cfgvars == <<filteredPods, logsMaxPods, logsContainer>>
gvars == <<gpc, nsTodo, curNs, received, lastErr, streamErr, errCh, errChan>>
pvars == <<ppc, cidx, lineNo, openCalls, openFailed, openStreams>>
chvars == <<logChan, logChanClosed, delivered>>
lvars == <<lpc, cfgvars, cancelled, gvars, pvars, chvars, lresult, lpanic>>

mvars == <<mpc, mlines, replies, stdout>>

cvars == <<cnow, dirMade, files, hist, call>>

vars == <<rvars, tvars, lvars, mvars, cvars>>

outsideReady == <<tvars, lvars, mvars, cvars>>
outsideTunnel == <<rvars, lvars, mvars, cvars>>
outsideLog == <<rvars, tvars, mvars, cvars>>
outsideMcp == <<rvars, tvars, lvars, cvars>>
outsideCache == <<rvars, tvars, lvars, mvars>>

(***************************************************************************)
(* Helpers                                                                 *)
(***************************************************************************)
SeqsUpTo(S, n) == UNION {[1..k -> S] : k \in 0..n}

(***************************************************************************)
(* Readiness                                                               *)
(***************************************************************************)
\* Longest pod list, endpoint-slice list and ingress list handed to the checker.
MaxReadyPods == 2
MaxSlices == 2
MaxIngresses == 2

\* time.Minute, in the seconds the model measures ages in.
Minute == 60

\* Service ages around the one-minute threshold (a creation timestamp ahead
\* of the local clock gives a negative age).
Ages == {-1, 0, 59, 60, 61, 3600}

\* Pods as arePodsReady reads them: the phase and the Ready flag of each
\* container status.
PodShapes ==
    { [phase |-> "Running",   ready |-> <<TRUE>>],
      [phase |-> "Running",   ready |-> <<TRUE, FALSE>>],
      [phase |-> "Running",   ready |-> <<>>],
      [phase |-> "Pending",   ready |-> <<FALSE>>],
      [phase |-> "Succeeded", ready |-> <<FALSE>>],
      [phase |-> "Failed",    ready |-> <<FALSE>>] }

\* Endpoint slices as hasReadyEndpointSlices reads them: per endpoint the
\* Conditions.Ready pointer ("nil", "true" or "false").
SliceShapes ==
    { <<>>, <<"nil">>, <<"true">>, <<"false">>, <<"false", "true">> }

\* Ingresses as GetIngressForService and hasIngressLoadBalancer read them:
\* whether some rule path routes to the service, and the number of
\* load-balancer addresses in the status.
IngressShapes ==
    { [routes |-> FALSE, lb |-> 1],
      [routes |-> TRUE,  lb |-> 0],
      [routes |-> TRUE,  lb |-> 1] }

NoIngress == [err |-> TRUE, routes |-> FALSE, lb |-> 0]

\* What a list call returns: the items, or an error.
ListOk(items) == [err |-> FALSE, items |-> items]
ListError == [err |-> TRUE, items |-> <<>>]
ListResults(S, n) == {ListOk(items) : items \in SeqsUpTo(S, n)} \cup {ListError}

EmptyReadiness ==
    [IsReady |-> FALSE, ServiceExists |-> FALSE, EndpointsReady |-> FALSE,
     IngressReady |-> FALSE, PodsReady |-> FALSE, FailureReason |-> ""]

RECURSIVE FirstRouting(_, _)
FirstRouting(list, i) ==
    IF i > Len(list) THEN NoIngress
    ELSE IF list[i].routes
         THEN [err |-> FALSE, routes |-> TRUE, lb |-> list[i].lb]
         ELSE FirstRouting(list, i + 1)

\* GetIngressForService: the first ingress with a path to the service, an
\* error when listing fails or none routes to it.
GetIngressForService(list) ==
    IF list.err THEN NoIngress ELSE FirstRouting(list.items, 1)

hasIngressLoadBalancer(ing) == ing.lb > 0

RECURSIVE AllTrue(_, _)
AllTrue(s, i) ==
    IF i > Len(s) THEN TRUE
    ELSE IF ~s[i] THEN FALSE ELSE AllTrue(s, i + 1)

RECURSIVE PodsReadyFrom(_, _)
PodsReadyFrom(pods, i) ==
    IF i > Len(pods) THEN TRUE
    ELSE IF pods[i].phase = "Succeeded" THEN PodsReadyFrom(pods, i + 1)
    ELSE IF pods[i].phase # "Running" THEN FALSE
    ELSE IF ~AllTrue(pods[i].ready, 1) THEN FALSE
    ELSE PodsReadyFrom(pods, i + 1)

arePodsReady_EmptyReady(pods) == PodsReadyFrom(pods, 1)

arePodsReady(pods) ==
    IF Len(pods) = 0 THEN FALSE ELSE PodsReadyFrom(pods, 1)

hasReadyEndpointSlices_NilNotReady(sl) ==
    \E i \in 1..Len(sl) : \E j \in 1..Len(sl[i]) : sl[i][j] = "true"

hasReadyEndpointSlices(sl) ==
    IF Len(sl) = 0 THEN FALSE
    ELSE \E i \in 1..Len(sl) : \E j \in 1..Len(sl[i]) :
            sl[i][j] = "nil" \/ sl[i][j] = "true"

White(reason) == "o (" \o reason \o ")"
Green == "O"

FormatReadinessStatus_ReasonFirst(r, a) ==
    IF r.IsReady THEN Green
    ELSE IF r.FailureReason # "" THEN White(r.FailureReason)
    ELSE IF a < Minute THEN White("starting up..")
    ELSE White("unknown")

FormatReadinessStatus(r, a) ==
    IF r.IsReady THEN Green
    ELSE IF a < Minute THEN White("starting up..")
    ELSE IF r.FailureReason # "" THEN White(r.FailureReason)
    ELSE White("unknown")

ReadyIdle ==
    /\ rpc = "row"
    /\ serviceAge = 0
    /\ rpods = <<>>
    /\ svcErr = FALSE
    /\ ingress = NoIngress
    /\ endpointSlices = ListOk(<<>>)
    /\ readiness = EmptyReadiness
    /\ stages = <<>>
    /\ readyStatus = White("unknown")

\* displayURLsTable, one row: the age is computed and, when no cluster
\* client is available, the row is settled without a readiness check.
DisplayRow ==
    /\ rpc = "row"
    /\ UNCHANGED outsideReady
    /\ \E a \in Ages, k8sAvailable \in BOOLEAN :
          /\ serviceAge' = a
          /\ IF k8sAvailable
             THEN /\ rpc' = "fetch"
                  /\ readyStatus' = White("unknown")
             ELSE /\ rpc' = "shown"
                  /\ readyStatus' = IF a < Minute THEN White("starting up..")
                                    ELSE White("unknown")
    /\ rpods' = <<>>
    /\ svcErr' = FALSE
    /\ ingress' = NoIngress
    /\ endpointSlices' = ListOk(<<>>)
    /\ readiness' = EmptyReadiness
    /\ stages' = <<>>

\* fetchServicePods fails: no readiness result exists for the row.
FetchPodsFail ==
    /\ rpc = "fetch"
    /\ UNCHANGED outsideReady
    /\ rpc' = "shown"
    /\ readyStatus' = IF serviceAge < Minute THEN White("starting up..")
                      ELSE White("unknown")
    /\ UNCHANGED <<serviceAge, rpods, svcErr, ingress, endpointSlices,
                   readiness, stages>>

\* fetchServicePods succeeds and CheckServiceReadiness is entered.
FetchPodsOk ==
    /\ rpc = "fetch"
    /\ UNCHANGED outsideReady
    /\ \E pods \in SeqsUpTo(PodShapes, MaxReadyPods) : rpods' = pods
    /\ rpc' = "service"
    /\ readiness' = EmptyReadiness
    /\ UNCHANGED <<serviceAge, svcErr, ingress, endpointSlices, stages,
                   readyStatus>>

CheckService_NoReturn ==
    /\ rpc = "service"
    /\ UNCHANGED outsideReady
    /\ stages' = Append(stages, "service")
    /\ \E err \in BOOLEAN :
          /\ svcErr' = err
          /\ readiness' = IF err
                          THEN [readiness EXCEPT !.FailureReason = "no service"]
                          ELSE [readiness EXCEPT !.ServiceExists = TRUE]
          /\ rpc' = "ingress"
    /\ UNCHANGED <<serviceAge, rpods, ingress, endpointSlices, readyStatus>>

\* Stage 1: GetService.
CheckService ==
    /\ rpc = "service"
    /\ UNCHANGED outsideReady
    /\ stages' = Append(stages, "service")
    /\ \E err \in BOOLEAN :
          /\ svcErr' = err
          /\ IF err
             THEN /\ readiness' = [readiness EXCEPT !.FailureReason = "no service"]
                  /\ rpc' = "checked"
             ELSE /\ readiness' = [readiness EXCEPT !.ServiceExists = TRUE]
                  /\ rpc' = "ingress"
    /\ UNCHANGED <<serviceAge, rpods, ingress, endpointSlices, readyStatus>>

\* Stage 2: GetIngressForService and hasIngressLoadBalancer.
CheckIngress ==
    /\ rpc = "ingress"
    /\ UNCHANGED outsideReady
    /\ stages' = Append(stages, "ingress")
    /\ \E list \in ListResults(IngressShapes, MaxIngresses) :
          LET ing == GetIngressForService(list) IN
          /\ ingress' = ing
          /\ IF ing.err \/ ~hasIngressLoadBalancer(ing)
             THEN /\ readiness' = [readiness EXCEPT !.FailureReason = "no lb yet"]
                  /\ rpc' = "checked"
             ELSE /\ readiness' = [readiness EXCEPT !.IngressReady = TRUE]
                  /\ rpc' = "pods"
    /\ UNCHANGED <<serviceAge, rpods, svcErr, endpointSlices, readyStatus>>

\* Stage 3: arePodsReady.
CheckPods ==
    /\ rpc = "pods"
    /\ UNCHANGED outsideReady
    /\ stages' = Append(stages, "pods")
    /\ IF ~arePodsReady(rpods)
       THEN /\ readiness' = [readiness EXCEPT !.FailureReason = "pod not ready"]
            /\ rpc' = "checked"
       ELSE /\ readiness' = [readiness EXCEPT !.PodsReady = TRUE]
            /\ rpc' = "endpoints"
    /\ UNCHANGED <<serviceAge, rpods, svcErr, ingress, endpointSlices,
                   readyStatus>>

CheckEndpoints_IgnoreError ==
    /\ rpc = "endpoints"
    /\ UNCHANGED outsideReady
    /\ stages' = Append(stages, "endpoints")
    /\ \E sl \in ListResults(SliceShapes, MaxSlices) :
          /\ endpointSlices' = sl
          /\ IF ~sl.err /\ ~hasReadyEndpointSlices(sl.items)
             THEN readiness' = [readiness EXCEPT !.FailureReason = "no endpoints"]
             ELSE readiness' = [readiness EXCEPT !.EndpointsReady = TRUE,
                                                 !.IsReady = TRUE,
                                                 !.FailureReason = ""]
    /\ rpc' = "checked"
    /\ UNCHANGED <<serviceAge, rpods, svcErr, ingress, readyStatus>>

\* Stage 4: ListEndpointSlices and hasReadyEndpointSlices.
CheckEndpoints ==
    /\ rpc = "endpoints"
    /\ UNCHANGED outsideReady
    /\ stages' = Append(stages, "endpoints")
    /\ \E sl \in ListResults(SliceShapes, MaxSlices) :
          /\ endpointSlices' = sl
          /\ IF sl.err \/ ~hasReadyEndpointSlices(sl.items)
             THEN readiness' = [readiness EXCEPT !.FailureReason = "no endpoints"]
             ELSE readiness' = [readiness EXCEPT !.EndpointsReady = TRUE,
                                                 !.IsReady = TRUE,
                                                 !.FailureReason = ""]
    /\ rpc' = "checked"
    /\ UNCHANGED <<serviceAge, rpods, svcErr, ingress, readyStatus>>

\* The caller formats the result with the age computed for the row.
FormatRow ==
    /\ rpc = "checked"
    /\ UNCHANGED outsideReady
    /\ readyStatus' = FormatReadinessStatus(readiness, serviceAge)
    /\ rpc' = "formatted"
    /\ UNCHANGED <<serviceAge, rpods, svcErr, ingress, endpointSlices,
                   readiness, stages>>

\* The row is appended and the loop moves to the next service.
NextRow ==
    /\ rpc \in {"shown", "formatted"}
    /\ UNCHANGED outsideReady
    /\ rpc' = "row"
    /\ UNCHANGED <<serviceAge, rpods, svcErr, ingress, endpointSlices,
                   readiness, stages, readyStatus>>

ReadyNext ==
    \/ DisplayRow
    \/ FetchPodsFail
    \/ FetchPodsOk
    \/ CheckService
    \/ CheckIngress
    \/ CheckPods
    \/ CheckEndpoints
    \/ FormatRow
    \/ NextRow

(***************************************************************************)
(* Tunnel and endpoint discovery                                           *)
(***************************************************************************)
\* The local port DiscoverAPIEndpointFast and DiscoverAPIEndpoint ask for.
PreferredPort == 8080

\* findAvailablePort probes the ports below startPort + ProbeSpan.
ProbeSpan == 100

\* http.StatusOK
StatusOK == 200

\* Ports next to the preferred one that other processes take and release
\* one at a time; the rest of the probed range is held or free as a block.
EnvPortCount == 3
\* Pods ListPods returns at most.
MaxSvcPods == 2
\* Calls of the release function the caller makes at most.
MaxReleaseCalls == 2

EnvPorts == PreferredPort .. (PreferredPort + EnvPortCount - 1)
BlockPorts == (PreferredPort + EnvPortCount) .. (PreferredPort + ProbeSpan + 1)

NoService == [err |-> TRUE, ports |-> <<>>]
NoPod == [phase |-> "", containers |-> <<>>]

\* What GetService returns, as SetupPortForward reads it: the first port's
\* Port and TargetPort (IntVal, StrVal).
ServiceShapes ==
    { NoService,
      [err |-> FALSE, ports |-> <<>>],
      [err |-> FALSE, ports |-> <<[Port |-> 80, IntVal |-> 8000, StrVal |-> ""]>>],
      [err |-> FALSE, ports |-> <<[Port |-> 80, IntVal |-> 0, StrVal |-> "http"]>>],
      [err |-> FALSE, ports |-> <<[Port |-> 80, IntVal |-> 0, StrVal |-> ""]>>] }

\* Pods as SetupPortForward reads them: the phase and, per container, the
\* declared ports.
TunnelPodShapes ==
    { [phase |-> "Pending",
       containers |-> <<<<[Name |-> "http", ContainerPort |-> 3000]>>>>],
      [phase |-> "Succeeded", containers |-> <<<<>>>>],
      [phase |-> "Failed", containers |-> <<<<>>>>],
      [phase |-> "Unknown", containers |-> <<>>],
      [phase |-> "Running",
       containers |-> << <<[Name |-> "metrics", ContainerPort |-> 9090]>>,
                         <<[Name |-> "http", ContainerPort |-> 3000],
                           [Name |-> "http", ContainerPort |-> 3001]>> >>],
      [phase |-> "Running",
       containers |-> << <<[Name |-> "grpc", ContainerPort |-> 9000]>> >>] }

FirstRunningFrom_AnyPhase(pods, i) == IF i > Len(pods) THEN 0 ELSE i

RECURSIVE FirstRunningFrom(_, _)
FirstRunningFrom(pods, i) ==
    IF i > Len(pods) THEN 0
    ELSE IF pods[i].phase = "Running" THEN i
    ELSE FirstRunningFrom(pods, i + 1)

\* The first pod in phase Running (0: none).
FirstRunning(pods) == FirstRunningFrom(pods, 1)

ScanPorts_Last(ports, name, j) ==
    LET S == {k \in j..Len(ports) : ports[k].Name = name} IN
    IF S = {} THEN 0
    ELSE ports[CHOOSE k \in S : \A m \in S : m <= k].ContainerPort

RECURSIVE ScanPorts(_, _, _)
ScanPorts(ports, name, j) ==
    IF j > Len(ports) THEN 0
    ELSE IF ports[j].Name = name THEN ports[j].ContainerPort
    ELSE ScanPorts(ports, name, j + 1)

RECURSIVE ScanContainers(_, _, _)
ScanContainers(cs, name, i) ==
    IF i > Len(cs) THEN 0
    ELSE LET t == ScanPorts(cs[i], name, 1) IN
         IF t # 0 THEN t ELSE ScanContainers(cs, name, i + 1)

\* The remote port: the numeric target port, else the named port resolved
\* against the pod, else the service port.
ResolveTargetPort(svc, pod) ==
    LET tp == svc.ports[1]
        t == IF tp.IntVal # 0 THEN tp.IntVal
             ELSE IF tp.StrVal # "" THEN ScanContainers(pod.containers, tp.StrVal, 1)
             ELSE 0
    IN IF t = 0 THEN tp.Port ELSE t

\* net.Listen on the port succeeds.
isPortAvailable(p) == p \notin others /\ p # held

FirstProbe_FromStart(startPort) == startPort

\* The first port findAvailablePort tries.
FirstProbe(startPort) == startPort + 1

URL(p) == "http://localhost:" \o ToString(p)

\* The health probe's outcome: a transport error, or a status and a body
\* that decodes or not.
BadBody == [wellformed |-> FALSE, public_url |-> "", api_id |-> ""]
Bodies ==
    { BadBody,
      [wellformed |-> TRUE, public_url |-> "", api_id |-> "abc"],
      [wellformed |-> TRUE, public_url |-> "https://api.example.com",
       api_id |-> "abc"] }
TransportError == [err |-> TRUE, status |-> 0, body |-> BadBody]
ProbeResponses ==
    {TransportError}
    \cup {[err |-> FALSE, status |-> st, body |-> b] :
             st \in {200, 201, 204}, b \in Bodies}
    \cup {[err |-> FALSE, status |-> st, body |-> BadBody] : st \in {404, 500}}

NilInfo ==
    [nil |-> TRUE, PublicURL |-> "", PortForwardURL |-> "", APIID |-> "",
     StopPortForward |-> FALSE]

ErrGetInfo == "failed to get API info"
ErrStatus == "API info request failed with status"
ErrParse == "failed to parse API info"
ErrSetup == "failed to setup initial connection"
DiscoveryFailed == {ErrGetInfo, ErrStatus, ErrParse}

ProbeResult_KeepOnPublic(url, r) ==
    IF r.err THEN [release |-> TRUE, info |-> NilInfo, err |-> ErrGetInfo]
    ELSE IF r.status # StatusOK
    THEN [release |-> TRUE, info |-> NilInfo, err |-> ErrStatus]
    ELSE IF ~r.body.wellformed
    THEN [release |-> TRUE, info |-> NilInfo, err |-> ErrParse]
    ELSE IF r.body.public_url # ""
    THEN [release |-> FALSE,
          info |-> [nil |-> FALSE, PublicURL |-> r.body.public_url,
                    PortForwardURL |-> "", APIID |-> r.body.api_id,
                    StopPortForward |-> FALSE],
          err |-> ""]
    ELSE [release |-> FALSE,
          info |-> [nil |-> FALSE, PublicURL |-> "", PortForwardURL |-> url,
                    APIID |-> r.body.api_id, StopPortForward |-> TRUE],
          err |-> ""]

ProbeResult_LeakOnStatus(url, r) ==
    IF r.err THEN [release |-> TRUE, info |-> NilInfo, err |-> ErrGetInfo]
    ELSE IF r.status # StatusOK
    THEN [release |-> FALSE, info |-> NilInfo, err |-> ErrStatus]
    ELSE IF ~r.body.wellformed
    THEN [release |-> TRUE, info |-> NilInfo, err |-> ErrParse]
    ELSE IF r.body.public_url # ""
    THEN [release |-> TRUE,
          info |-> [nil |-> FALSE, PublicURL |-> r.body.public_url,
                    PortForwardURL |-> "", APIID |-> r.body.api_id,
                    StopPortForward |-> FALSE],
          err |-> ""]
    ELSE [release |-> FALSE,
          info |-> [nil |-> FALSE, PublicURL |-> "", PortForwardURL |-> url,
                    APIID |-> r.body.api_id, StopPortForward |-> TRUE],
          err |-> ""]

\* DiscoverAPIEndpointFast after the tunnel is up: what it returns for the
\* probe's response and whether it calls stopFunc before returning.
ProbeResult(url, r) ==
    IF r.err THEN [release |-> TRUE, info |-> NilInfo, err |-> ErrGetInfo]
    ELSE IF r.status # StatusOK
    THEN [release |-> TRUE, info |-> NilInfo, err |-> ErrStatus]
    ELSE IF ~r.body.wellformed
    THEN [release |-> TRUE, info |-> NilInfo, err |-> ErrParse]
    ELSE IF r.body.public_url # ""
    THEN [release |-> TRUE,
          info |-> [nil |-> FALSE, PublicURL |-> r.body.public_url,
                    PortForwardURL |-> "", APIID |-> r.body.api_id,
                    StopPortForward |-> FALSE],
          err |-> ""]
    ELSE [release |-> FALSE,
          info |-> [nil |-> FALSE, PublicURL |-> "", PortForwardURL |-> url,
                    APIID |-> r.body.api_id, StopPortForward |-> TRUE],
          err |-> ""]

Alive == tpanic = ""

TunnelIdle ==
    /\ entry = "none"
    /\ dpc = "idle"
    /\ spc = "idle"
    /\ setupCalls = 0
    /\ setupErr = ""
    /\ service = NoService
    /\ svcPods = <<>>
    /\ targetPod = NoPod
    /\ targetPort = 0
    /\ localPort = PreferredPort
    /\ port = 0
    /\ portWasBusy = FALSE
    /\ others = {}
    /\ fwd = "none"
    /\ held = 0
    /\ readyChan = "open"
    /\ stopChan = "none"
    /\ ctxDone = FALSE
    /\ resp = TransportError
    /\ info = NilInfo
    /\ derr = ""
    /\ stopOwner = "nobody"
    /\ releaseCalls = 0
    /\ tpanic = ""

\* As TunnelIdle, with any of the ports around the preferred one already
\* held by other processes; of the block above them all are free, all are
\* held, or all but the port PreferredPort + ProbeSpan are held.
TunnelStart ==
    /\ entry = "none"
    /\ dpc = "idle"
    /\ spc = "idle"
    /\ setupCalls = 0
    /\ setupErr = ""
    /\ service = NoService
    /\ svcPods = <<>>
    /\ targetPod = NoPod
    /\ targetPort = 0
    /\ localPort = PreferredPort
    /\ port = 0
    /\ portWasBusy = FALSE
    /\ \E S \in SUBSET EnvPorts,
          B \in {{}, BlockPorts, BlockPorts \ {PreferredPort + ProbeSpan}} :
          others = S \cup B
    /\ fwd = "none"
    /\ held = 0
    /\ readyChan = "open"
    /\ stopChan = "none"
    /\ ctxDone = FALSE
    /\ resp = TransportError
    /\ info = NilInfo
    /\ derr = ""
    /\ stopOwner = "nobody"
    /\ releaseCalls = 0
    /\ tpanic = ""

\* ---- the environment ----
OtherTake ==
    /\ \E p \in EnvPorts :
          /\ isPortAvailable(p)
          /\ others' = others \cup {p}
    /\ UNCHANGED <<svars, fvars, dvars, ctxDone>>
    /\ UNCHANGED outsideTunnel

OtherRelease ==
    /\ \E p \in EnvPorts :
          /\ p \in others
          /\ others' = others \ {p}
    /\ UNCHANGED <<svars, fvars, dvars, ctxDone>>
    /\ UNCHANGED outsideTunnel

\* The caller's context is cancelled; SetupPortForward observes it only in
\* the select of startPortForward.
CtxCancel ==
    /\ Alive
    /\ spc \in {"start", "wait"}
    /\ ~ctxDone
    /\ ctxDone' = TRUE
    /\ UNCHANGED <<svars, fvars, dvars, others>>
    /\ UNCHANGED outsideTunnel

\* ---- the entry points ----
CallEntry(e) ==
    /\ dpc = "idle"
    /\ entry' = e
    /\ dpc' = "setup"
    /\ setupCalls' = setupCalls + 1
    /\ spc' = "service"
    /\ localPort' = PreferredPort
    /\ UNCHANGED <<setupErr, service, svcPods, targetPod, targetPort, port,
                   portWasBusy>>
    /\ UNCHANGED <<resp, info, derr, stopOwner, releaseCalls, tpanic>>
    /\ UNCHANGED <<fvars, others, ctxDone>>
    /\ UNCHANGED outsideTunnel

CallDiscoverFast == CallEntry("fast")
CallDiscoverPlain == CallEntry("plain")

SetupFail(e) ==
    /\ setupErr' = e
    /\ spc' = "err"

\* ---- SetupPortForward ----
SetupGetService ==
    /\ Alive
    /\ spc = "service"
    /\ \E svc \in ServiceShapes :
          /\ service' = svc
          /\ IF svc.err THEN SetupFail("failed to get service")
             ELSE IF Len(svc.ports) = 0
             THEN SetupFail("service has no ports defined")
             ELSE /\ spc' = "pods"
                  /\ UNCHANGED setupErr
    /\ UNCHANGED <<svcPods, targetPod, targetPort, localPort, port, portWasBusy>>
    /\ UNCHANGED <<fvars, dvars, others, ctxDone>>
    /\ UNCHANGED outsideTunnel

SetupListPods_RunningFirst ==
    /\ Alive
    /\ spc = "pods"
    /\ \E res \in ListResults(TunnelPodShapes, MaxSvcPods) :
          /\ svcPods' = res.items
          /\ targetPod' = IF FirstRunning(res.items) = 0 THEN NoPod
                          ELSE res.items[FirstRunning(res.items)]
          /\ IF res.err THEN SetupFail("failed to list pods for service")
             ELSE IF FirstRunning(res.items) = 0
             THEN SetupFail("no running pods found for service")
             ELSE IF Len(res.items) = 0 THEN SetupFail("no pods found for service")
             ELSE /\ spc' = "port"
                  /\ UNCHANGED setupErr
    /\ UNCHANGED <<service, targetPort, localPort, port, portWasBusy>>
    /\ UNCHANGED <<fvars, dvars, others, ctxDone>>
    /\ UNCHANGED outsideTunnel

\* ListPods with the service's selector and the choice of the target pod.
SetupListPods ==
    /\ Alive
    /\ spc = "pods"
    /\ \E res \in ListResults(TunnelPodShapes, MaxSvcPods) :
          /\ svcPods' = res.items
          /\ targetPod' = IF FirstRunning(res.items) = 0 THEN NoPod
                          ELSE res.items[FirstRunning(res.items)]
          /\ IF res.err THEN SetupFail("failed to list pods for service")
             ELSE IF Len(res.items) = 0 THEN SetupFail("no pods found for service")
             ELSE IF FirstRunning(res.items) = 0
             THEN SetupFail("no running pods found for service")
             ELSE /\ spc' = "port"
                  /\ UNCHANGED setupErr
    /\ UNCHANGED <<service, targetPort, localPort, port, portWasBusy>>
    /\ UNCHANGED <<fvars, dvars, others, ctxDone>>
    /\ UNCHANGED outsideTunnel

\* if !isPortAvailable(localPort): enter findAvailablePort. The pod list is
\* not read again once the target pod is chosen.
SetupCheckPort ==
    /\ Alive
    /\ spc = "port"
    /\ IF isPortAvailable(localPort)
       THEN /\ spc' = "target"
            /\ UNCHANGED <<port, portWasBusy>>
       ELSE /\ spc' = "probing"
            /\ port' = FirstProbe(localPort)
            /\ portWasBusy' = TRUE
    /\ svcPods' = <<>>
    /\ UNCHANGED <<setupErr, service, targetPod, targetPort, localPort>>
    /\ UNCHANGED <<fvars, dvars, others, ctxDone>>
    /\ UNCHANGED outsideTunnel

\* One iteration of findAvailablePort's loop, and the use of its result.
SetupProbePort ==
    /\ Alive
    /\ spc = "probing"
    /\ IF port < PreferredPort + ProbeSpan
       THEN IF isPortAvailable(port)
            THEN /\ localPort' = port
                 /\ spc' = "target"
                 /\ UNCHANGED <<port, setupErr>>
            ELSE /\ port' = port + 1
                 /\ UNCHANGED <<localPort, spc, setupErr>>
       ELSE /\ SetupFail("port is already in use and no alternative ports available")
            /\ UNCHANGED <<localPort, port>>
    /\ UNCHANGED <<service, svcPods, targetPod, targetPort, portWasBusy>>
    /\ UNCHANGED <<fvars, dvars, others, ctxDone>>
    /\ UNCHANGED outsideTunnel

SetupResolveTarget ==
    /\ Alive
    /\ spc = "target"
    /\ targetPort' = ResolveTargetPort(service, targetPod)
    /\ spc' = "start"
    /\ UNCHANGED <<setupErr, service, svcPods, targetPod, localPort, port,
                   portWasBusy>>
    /\ UNCHANGED <<fvars, dvars, others, ctxDone>>
    /\ UNCHANGED outsideTunnel

\* ---- startPortForward ----
\* spdy.RoundTripperFor or portforward.New fails: nothing was started.
StartForwardFail ==
    /\ Alive
    /\ spc = "start"
    /\ SetupFail("failed to start port-forward")
    /\ UNCHANGED <<service, svcPods, targetPod, targetPort, localPort, port,
                   portWasBusy>>
    /\ UNCHANGED <<fvars, dvars, others, ctxDone>>
    /\ UNCHANGED outsideTunnel

\* The channels are made and the forwarder goroutine is started.
StartForward ==
    /\ Alive
    /\ spc = "start"
    /\ spc' = "wait"
    /\ stopChan' = "open"
    /\ readyChan' = "open"
    /\ fwd' = "dialing"
    /\ UNCHANGED held
    /\ UNCHANGED <<setupErr, service, svcPods, targetPod, targetPort, localPort,
                   port, portWasBusy>>
    /\ UNCHANGED <<dvars, others, ctxDone>>
    /\ UNCHANGED outsideTunnel

\* The forwarder cannot reach the pod: ForwardPorts returns an error that
\* the goroutine drops.
FwdDialFail ==
    /\ Alive
    /\ fwd = "dialing"
    /\ fwd' = "exited"
    /\ UNCHANGED <<held, readyChan, stopChan>>
    /\ UNCHANGED <<svars, dvars, others, ctxDone>>
    /\ UNCHANGED outsideTunnel

\* The forwarder binds the local port and signals readiness, or finds the
\* port taken and returns.
FwdListen ==
    /\ Alive
    /\ fwd = "dialing"
    /\ IF isPortAvailable(localPort)
       THEN /\ held' = localPort
            /\ readyChan' = "closed"
            /\ fwd' = "listening"
       ELSE /\ fwd' = "exited"
            /\ UNCHANGED <<held, readyChan>>
    /\ UNCHANGED stopChan
    /\ UNCHANGED <<svars, dvars, others, ctxDone>>
    /\ UNCHANGED outsideTunnel

\* The forwarder sees stopChan closed and closes its listener.
FwdStop ==
    /\ Alive
    /\ fwd = "listening"
    /\ stopChan = "closed"
    /\ fwd' = "exited"
    /\ held' = 0
    /\ UNCHANGED <<readyChan, stopChan>>
    /\ UNCHANGED <<svars, dvars, others, ctxDone>>
    /\ UNCHANGED outsideTunnel

\* select: case <-readyChan
WaitReady ==
    /\ Alive
    /\ spc = "wait"
    /\ readyChan = "closed"
    /\ spc' = "ok"
    /\ UNCHANGED <<setupErr, service, svcPods, targetPod, targetPort, localPort,
                   port, portWasBusy>>
    /\ UNCHANGED <<fvars, dvars, others, ctxDone>>
    /\ UNCHANGED outsideTunnel

WaitTimeout_NoStop ==
    /\ Alive
    /\ spc = "wait"
    /\ SetupFail("timeout waiting for port-forward to be ready")
    /\ UNCHANGED <<fwd, held, readyChan, stopChan>>
    /\ UNCHANGED <<service, svcPods, targetPod, targetPort, localPort, port,
                   portWasBusy>>
    /\ UNCHANGED <<dvars, others, ctxDone>>
    /\ UNCHANGED outsideTunnel

\* select: case <-time.After(10 * time.Second)
WaitTimeout ==
    /\ Alive
    /\ spc = "wait"
    /\ stopChan' = "closed"
    /\ SetupFail("timeout waiting for port-forward to be ready")
    /\ UNCHANGED <<fwd, held, readyChan>>
    /\ UNCHANGED <<service, svcPods, targetPod, targetPort, localPort, port,
                   portWasBusy>>
    /\ UNCHANGED <<dvars, others, ctxDone>>
    /\ UNCHANGED outsideTunnel

\* select: case <-ctx.Done()
WaitCancelled ==
    /\ Alive
    /\ spc = "wait"
    /\ ctxDone
    /\ stopChan' = "closed"
    /\ SetupFail("context cancelled while waiting for port-forward")
    /\ UNCHANGED <<fwd, held, readyChan>>
    /\ UNCHANGED <<service, svcPods, targetPod, targetPort, localPort, port,
                   portWasBusy>>
    /\ UNCHANGED <<dvars, others, ctxDone>>
    /\ UNCHANGED outsideTunnel

\* ---- the entry point returns to its caller ----
Return(e, i, owner) ==
    /\ dpc' = "returned"
    /\ derr' = e
    /\ info' = i
    /\ stopOwner' = owner
    /\ UNCHANGED <<entry, setupCalls, releaseCalls, tpanic>>

\* DiscoverAPIEndpoint keeps the URL and drops the stopFunc.
DiscoverPlainReturn ==
    /\ Alive
    /\ entry = "plain"
    /\ dpc = "setup"
    /\ spc \in {"ok", "err"}
    /\ Return(IF spc = "ok" THEN "" ELSE "failed to setup port-forward",
              NilInfo, IF spc = "ok" THEN "dropped" ELSE "nobody")
    /\ UNCHANGED resp
    /\ UNCHANGED <<svars, fvars, others, ctxDone>>
    /\ UNCHANGED outsideTunnel

DiscoverSetupFailed_Retry ==
    /\ Alive
    /\ entry = "fast"
    /\ dpc = "setup"
    /\ spc = "err"
    /\ setupCalls < 3
    /\ setupCalls' = setupCalls + 1
    /\ spc' = "service"
    /\ localPort' = PreferredPort
    /\ UNCHANGED <<setupErr, service, svcPods, targetPod, targetPort, port,
                   portWasBusy>>
    /\ UNCHANGED <<entry, dpc, resp, info, derr, stopOwner, releaseCalls, tpanic>>
    /\ UNCHANGED <<fvars, others, ctxDone>>
    /\ UNCHANGED outsideTunnel

\* DiscoverAPIEndpointFast: SetupPortForward failed, its error is wrapped
\* and returned.
DiscoverSetupFailed ==
    /\ Alive
    /\ entry = "fast"
    /\ dpc = "setup"
    /\ spc = "err"
    /\ Return(ErrSetup, NilInfo, "nobody")
    /\ UNCHANGED resp
    /\ UNCHANGED <<svars, fvars, others, ctxDone>>
    /\ UNCHANGED outsideTunnel

\* DiscoverAPIEndpointFast: the health probe through the tunnel and the
\* decision on its response.
DiscoverProbe ==
    /\ Alive
    /\ entry = "fast"
    /\ dpc = "setup"
    /\ spc = "ok"
    /\ \E r \in ProbeResponses :
          LET res == ProbeResult(URL(localPort), r) IN
          /\ resp' = r
          /\ IF res.release
             THEN IF stopChan = "open"
                  THEN /\ stopChan' = "closed"
                       /\ Return(res.err, res.info,
                                 IF res.info.StopPortForward THEN "caller"
                                 ELSE "nobody")
                  ELSE /\ tpanic' = "close of closed channel"
                       /\ UNCHANGED <<stopChan, entry, dpc, setupCalls, info,
                                      derr, stopOwner, releaseCalls>>
             ELSE /\ UNCHANGED stopChan
                  /\ Return(res.err, res.info,
                            IF res.info.StopPortForward THEN "caller"
                            ELSE "nobody")
    /\ UNCHANGED <<fwd, held, readyChan>>
    /\ UNCHANGED <<svars, others, ctxDone>>
    /\ UNCHANGED outsideTunnel

\* The caller invokes the release function it was handed:
\* func() { close(stopChan) }.
CallerRelease ==
    /\ Alive
    /\ dpc = "returned"
    /\ stopOwner = "caller"
    /\ releaseCalls < MaxReleaseCalls
    /\ releaseCalls' = releaseCalls + 1
    /\ IF stopChan = "open"
       THEN /\ stopChan' = "closed"
            /\ UNCHANGED tpanic
       ELSE /\ tpanic' = "close of closed channel"
            /\ UNCHANGED stopChan
    /\ UNCHANGED <<entry, dpc, setupCalls, resp, info, derr, stopOwner>>
    /\ UNCHANGED <<fwd, held, readyChan>>
    /\ UNCHANGED <<svars, others, ctxDone>>
    /\ UNCHANGED outsideTunnel

TunnelNext ==
    \/ OtherTake
    \/ OtherRelease
    \/ CtxCancel
    \/ CallDiscoverFast
    \/ CallDiscoverPlain
    \/ SetupGetService
    \/ SetupListPods
    \/ SetupCheckPort
    \/ SetupProbePort
    \/ SetupResolveTarget
    \/ StartForwardFail
    \/ StartForward
    \/ FwdDialFail
    \/ FwdListen
    \/ FwdStop
    \/ WaitReady
    \/ WaitTimeout
    \/ WaitCancelled
    \/ DiscoverPlainReturn
    \/ DiscoverSetupFailed
    \/ DiscoverProbe
    \/ CallerRelease

(***************************************************************************)
(* Log multiplexer                                                         *)
(***************************************************************************)
\* Pods selected for a session, namespaces they live in, containers per
\* pod and lines a container's log stream carries, at most.
MaxPodCount == 2
NsCount == 2
MaxContainers == 2
MaxLines == 2
\* Containers of the selected pods, in total.
MaxReaders == 3
\* Capacity of logChan (runLogs makes it with 100), scaled down so that a
\* full channel is reached.
LogChanCap == 1

\* Pods as the session reads them: the namespace and the number of
\* containers of the pod spec (containers are named 1, 2, ...).
LogPodShapes == [ns : 1..NsCount, nc : 1..MaxContainers]

RECURSIVE TotalContainers(_, _)
TotalContainers(pods, i) ==
    IF i > Len(pods) THEN 0 ELSE pods[i].nc + TotalContainers(pods, i + 1)

Pods == 1..Len(filteredPods)
PodsIn(ns) == {p \in Pods : filteredPods[p].ns = ns}
Namespaces == {filteredPods[p].ns : p \in Pods}

\* The containers a pod goroutine streams from: opts.Container when set
\* (logsContainer # 0), else every container of the pod spec.
Containers(p) ==
    IF logsContainer # 0 THEN <<logsContainer>>
    ELSE [i \in 1..filteredPods[p].nc |-> i]

NoErr == [kind |-> "nil", pod |-> 0, container |-> 0]
OpenErr(p, c) == [kind |-> "open", pod |-> p, container |-> c]
ReadErr(p) == [kind |-> "read", pod |-> p, container |-> 0]
ErrMaxPods == [kind |-> "max-pods", pod |-> 0, container |-> 0]

LogLine(p, c, n) == [PodName |-> p, Container |-> c, Message |-> n]

ExceedsMaxPods_OffByOne(n, max) == n > max + 1

\* len(filteredPods) > logsMaxPods
ExceedsMaxPods(n, max) == n > max

\* The process runs: runLogs has not returned and nothing has panicked.
Running == lpc \in {"consume", "readErr"} /\ lpanic = ""

\* Where a pod goroutine goes after container i of its list.
AfterContainer(p, i) == IF i < Len(Containers(p)) THEN "open" ELSE "sendNil"

CurrentContainer(p) == Containers(p)[cidx[p]]

LogIdle ==
    /\ lpc = "start"
    /\ filteredPods = <<>>
    /\ logsMaxPods = 10
    /\ logsContainer = 0
    /\ cancelled = FALSE
    /\ gpc = "notStarted"
    /\ nsTodo = {}
    /\ curNs = 0
    /\ received = 0
    /\ lastErr = NoErr
    /\ streamErr = NoErr
    /\ errCh = <<>>
    /\ ppc = <<>>
    /\ cidx = <<>>
    /\ lineNo = <<>>
    /\ openCalls = 0
    /\ openFailed = {}
    /\ openStreams = {}
    /\ logChan = <<>>
    /\ logChanClosed = FALSE
    /\ errChan = <<>>
    /\ delivered = <<>>
    /\ lresult = NoErr
    /\ lpanic = ""

\* runLogs has collected and filtered a non-empty pod list.
LogStart ==
    /\ lpc = "start"
    /\ filteredPods \in SeqsUpTo(LogPodShapes, MaxPodCount) \ {<<>>}
    /\ TotalContainers(filteredPods, 1) <= MaxReaders
    /\ logsMaxPods \in 1..MaxPodCount
    /\ logsContainer \in {0, 1}
    /\ cancelled = FALSE
    /\ gpc = "notStarted"
    /\ nsTodo = {}
    /\ curNs = 0
    /\ received = 0
    /\ lastErr = NoErr
    /\ streamErr = NoErr
    /\ errCh = [ns \in 1..NsCount |-> <<>>]
    /\ ppc = [p \in Pods |-> "idle"]
    /\ cidx = [p \in Pods |-> 1]
    /\ lineNo = [p \in Pods |-> 0]
    /\ openCalls = 0
    /\ openFailed = {}
    /\ openStreams = {}
    /\ logChan = <<>>
    /\ logChanClosed = FALSE
    /\ errChan = <<>>
    /\ delivered = [p \in Pods |-> <<>>]
    /\ lresult = NoErr
    /\ lpanic = ""

\* ---- runLogs ----
\* The max-pods check; past it the context, the signal handler, the
\* channels and the streaming goroutine are set up.
CheckMaxPods ==
    /\ lpc = "start"
    /\ IF ExceedsMaxPods(Len(filteredPods), logsMaxPods)
       THEN /\ lpc' = "failed"
            /\ lresult' = ErrMaxPods
            /\ UNCHANGED <<gpc, nsTodo>>
       ELSE /\ lpc' = "consume"
            /\ gpc' = "next"
            /\ nsTodo' = Namespaces
            /\ UNCHANGED lresult
    /\ UNCHANGED <<curNs, received, lastErr, streamErr, errCh, errChan>>
    /\ UNCHANGED <<pvars, chvars, cfgvars, cancelled, lpanic>>
    /\ UNCHANGED outsideLog

\* SIGINT or SIGTERM arrives: the handler goroutine calls cancel().
Signal ==
    /\ Running
    /\ ~cancelled
    /\ cancelled' = TRUE
    /\ UNCHANGED <<lpc, lresult, lpanic>>
    /\ UNCHANGED <<gvars, pvars, chvars, cfgvars>>
    /\ UNCHANGED outsideLog

\* for logLine := range logChan: one line is received and printed.
Consume ==
    /\ Running
    /\ lpc = "consume"
    /\ logChan # <<>>
    /\ LET l == Head(logChan) IN
          delivered' = [delivered EXCEPT ![l.PodName] =
                           Append(@, <<l.Container, l.Message>>)]
    /\ logChan' = Tail(logChan)
    /\ UNCHANGED <<lpc, lresult, lpanic, cancelled, logChanClosed>>
    /\ UNCHANGED <<gvars, pvars, cfgvars>>
    /\ UNCHANGED outsideLog

\* The range loop ends: logChan is closed and drained.
ConsumeEnd ==
    /\ Running
    /\ lpc = "consume"
    /\ logChan = <<>>
    /\ logChanClosed
    /\ lpc' = "readErr"
    /\ UNCHANGED <<lresult, lpanic, cancelled>>
    /\ UNCHANGED <<gvars, pvars, chvars, cfgvars>>
    /\ UNCHANGED outsideLog

\* err := <-errChan; runLogs returns and the deferred cancel() runs.
ReadErrChan ==
    /\ Running
    /\ lpc = "readErr"
    /\ errChan # <<>>
    /\ lresult' = Head(errChan)
    /\ errChan' = Tail(errChan)
    /\ lpc' = "done"
    /\ cancelled' = TRUE
    /\ UNCHANGED lpanic
    /\ UNCHANGED <<gpc, nsTodo, curNs, received, lastErr, streamErr, errCh>>
    /\ UNCHANGED <<pvars, chvars, cfgvars>>
    /\ UNCHANGED outsideLog

\* ---- the streaming goroutine of runLogs, and StreamLogsMulti in it ----
StreamCall_AllAtOnce ==
    /\ Running
    /\ gpc = "next"
    /\ \E ns \in nsTodo :
          /\ curNs' = ns
          /\ errCh' = [errCh EXCEPT ![ns] = <<>>]
          /\ ppc' = [p \in Pods |-> IF ppc[p] = "idle" THEN "open" ELSE ppc[p]]
    /\ received' = 0
    /\ lastErr' = NoErr
    /\ gpc' = "waiting"
    /\ UNCHANGED <<nsTodo, streamErr, errChan>>
    /\ UNCHANGED <<cidx, lineNo, openCalls, openFailed, openStreams>>
    /\ UNCHANGED <<chvars, cfgvars, lpc, lresult, lpanic, cancelled>>
    /\ UNCHANGED outsideLog

\* StreamLogsMulti is called for the next namespace of the map: errCh is
\* made and one goroutine per pod is started.
StreamCall ==
    /\ Running
    /\ gpc = "next"
    /\ \E ns \in nsTodo :
          /\ curNs' = ns
          /\ errCh' = [errCh EXCEPT ![ns] = <<>>]
          /\ ppc' = [p \in Pods |-> IF p \in PodsIn(ns) THEN "open" ELSE ppc[p]]
    /\ received' = 0
    /\ lastErr' = NoErr
    /\ gpc' = "waiting"
    /\ UNCHANGED <<nsTodo, streamErr, errChan>>
    /\ UNCHANGED <<cidx, lineNo, openCalls, openFailed, openStreams>>
    /\ UNCHANGED <<chvars, cfgvars, lpc, lresult, lpanic, cancelled>>
    /\ UNCHANGED outsideLog

\* One iteration of the wait loop: err := <-errCh.
StreamRecv ==
    /\ Running
    /\ gpc = "waiting"
    /\ received < Cardinality(PodsIn(curNs))
    /\ errCh[curNs] # <<>>
    /\ LET e == Head(errCh[curNs]) IN
          lastErr' = IF e # NoErr THEN e ELSE lastErr
    /\ errCh' = [errCh EXCEPT ![curNs] = Tail(@)]
    /\ received' = received + 1
    /\ UNCHANGED <<gpc, nsTodo, curNs, streamErr, errChan>>
    /\ UNCHANGED <<pvars, chvars, cfgvars, lpc, lresult, lpanic, cancelled>>
    /\ UNCHANGED outsideLog

\* The wait loop has received len(pods) values: StreamLogsMulti returns
\* lastErr.
StreamReturn ==
    /\ Running
    /\ gpc = "waiting"
    /\ received = Cardinality(PodsIn(curNs))
    /\ streamErr' = IF lastErr # NoErr THEN lastErr ELSE streamErr
    /\ nsTodo' = nsTodo \ {curNs}
    /\ gpc' = "next"
    /\ UNCHANGED <<curNs, received, lastErr, errCh, errChan>>
    /\ UNCHANGED <<pvars, chvars, cfgvars, lpc, lresult, lpanic, cancelled>>
    /\ UNCHANGED outsideLog

\* Every namespace is done: errChan <- streamErr; close(logChan).
StreamFinish ==
    /\ Running
    /\ gpc = "next"
    /\ nsTodo = {}
    /\ errChan' = Append(errChan, streamErr)
    /\ logChanClosed' = TRUE
    /\ gpc' = "done"
    /\ UNCHANGED <<nsTodo, curNs, received, lastErr, streamErr, errCh>>
    /\ UNCHANGED <<logChan, delivered>>
    /\ UNCHANGED <<pvars, cfgvars, lpc, lresult, lpanic, cancelled>>
    /\ UNCHANGED outsideLog

\* ---- the goroutine of pod p in StreamLogsMulti ----
ErrChHasRoom(p) ==
    Len(errCh[filteredPods[p].ns]) < Cardinality(PodsIn(filteredPods[p].ns))

SendErrCh(p, e) ==
    errCh' = [errCh EXCEPT ![filteredPods[p].ns] = Append(@, e)]

\* c.StreamLogs fails for the current container.
OpenFail(p) ==
    /\ Running
    /\ ppc[p] = "open"
    /\ openCalls' = openCalls + 1
    /\ openFailed' = openFailed \cup {<<p, CurrentContainer(p)>>}
    /\ ppc' = [ppc EXCEPT ![p] = "sendOpenErr"]
    /\ UNCHANGED <<cidx, lineNo, openStreams>>
    /\ UNCHANGED <<gvars, chvars, cfgvars, lpc, lresult, lpanic, cancelled>>
    /\ UNCHANGED outsideLog

\* c.StreamLogs returns a stream (a request on a cancelled context fails).
OpenOk(p) ==
    /\ Running
    /\ ppc[p] = "open"
    /\ ~cancelled
    /\ openCalls' = openCalls + 1
    /\ openStreams' = openStreams \cup {<<p, CurrentContainer(p)>>}
    /\ lineNo' = [lineNo EXCEPT ![p] = 0]
    /\ ppc' = [ppc EXCEPT ![p] = "scan"]
    /\ UNCHANGED <<cidx, openFailed>>
    /\ UNCHANGED <<gvars, chvars, cfgvars, lpc, lresult, lpanic, cancelled>>
    /\ UNCHANGED outsideLog

\* errCh <- "failed to stream logs ..."; continue
SendOpenErr(p) ==
    /\ Running
    /\ ppc[p] = "sendOpenErr"
    /\ ErrChHasRoom(p)
    /\ SendErrCh(p, OpenErr(p, CurrentContainer(p)))
    /\ ppc' = [ppc EXCEPT ![p] = AfterContainer(p, cidx[p])]
    /\ cidx' = [cidx EXCEPT ![p] = IF @ < Len(Containers(p)) THEN @ + 1 ELSE @]
    /\ UNCHANGED <<lineNo, openCalls, openFailed, openStreams>>
    /\ UNCHANGED <<gpc, nsTodo, curNs, received, lastErr, streamErr, errChan>>
    /\ UNCHANGED <<chvars, cfgvars, lpc, lresult, lpanic, cancelled>>
    /\ UNCHANGED outsideLog

\* scanner.Scan() returns true: the stream delivered its next line.
ScanLine(p) ==
    /\ Running
    /\ ppc[p] = "scan"
    /\ lineNo[p] < MaxLines
    /\ lineNo' = [lineNo EXCEPT ![p] = @ + 1]
    /\ ppc' = [ppc EXCEPT ![p] = "select"]
    /\ UNCHANGED <<cidx, openCalls, openFailed, openStreams>>
    /\ UNCHANGED <<gvars, chvars, cfgvars, lpc, lresult, lpanic, cancelled>>
    /\ UNCHANGED outsideLog

\* scanner.Scan() returns false at the end of the stream: stream.Close(),
\* no error, on to the next container.
ScanEOF(p) ==
    /\ Running
    /\ ppc[p] = "scan"
    /\ openStreams' = openStreams \ {<<p, CurrentContainer(p)>>}
    /\ ppc' = [ppc EXCEPT ![p] = AfterContainer(p, cidx[p])]
    /\ cidx' = [cidx EXCEPT ![p] = IF @ < Len(Containers(p)) THEN @ + 1 ELSE @]
    /\ UNCHANGED <<lineNo, openCalls, openFailed>>
    /\ UNCHANGED <<gvars, chvars, cfgvars, lpc, lresult, lpanic, cancelled>>
    /\ UNCHANGED outsideLog

\* scanner.Scan() returns false on a read error (a cancelled context aborts
\* the read): stream.Close(), then the error is to be sent.
ScanError(p) ==
    /\ Running
    /\ ppc[p] = "scan"
    /\ openStreams' = openStreams \ {<<p, CurrentContainer(p)>>}
    /\ ppc' = [ppc EXCEPT ![p] = "sendReadErr"]
    /\ UNCHANGED <<cidx, lineNo, openCalls, openFailed>>
    /\ UNCHANGED <<gvars, chvars, cfgvars, lpc, lresult, lpanic, cancelled>>
    /\ UNCHANGED outsideLog

\* errCh <- "error reading logs ..."; the loop goes on to the next container.
SendReadErr(p) ==
    /\ Running
    /\ ppc[p] = "sendReadErr"
    /\ ErrChHasRoom(p)
    /\ SendErrCh(p, ReadErr(p))
    /\ ppc' = [ppc EXCEPT ![p] = AfterContainer(p, cidx[p])]
    /\ cidx' = [cidx EXCEPT ![p] = IF @ < Len(Containers(p)) THEN @ + 1 ELSE @]
    /\ UNCHANGED <<lineNo, openCalls, openFailed, openStreams>>
    /\ UNCHANGED <<gpc, nsTodo, curNs, received, lastErr, streamErr, errChan>>
    /\ UNCHANGED <<chvars, cfgvars, lpc, lresult, lpanic, cancelled>>
    /\ UNCHANGED outsideLog

SelectSend_Resend(p) ==
    /\ Running
    /\ ppc[p] = "select"
    /\ IF logChanClosed
       THEN /\ lpanic' = "send on closed channel"
            /\ UNCHANGED logChan
       ELSE /\ Len(logChan) < LogChanCap
            /\ logChan' = Append(logChan,
                                 LogLine(p, CurrentContainer(p), lineNo[p]))
            /\ UNCHANGED lpanic
    /\ UNCHANGED <<ppc, cidx, lineNo, openCalls, openFailed, openStreams>>
    /\ UNCHANGED <<logChanClosed, delivered>>
    /\ UNCHANGED <<gvars, cfgvars, lpc, lresult, cancelled>>
    /\ UNCHANGED outsideLog

\* select: case output <- LogLine{...}. A send on the closed channel panics.
SelectSend(p) ==
    /\ Running
    /\ ppc[p] = "select"
    /\ IF logChanClosed
       THEN /\ lpanic' = "send on closed channel"
            /\ UNCHANGED <<logChan, ppc>>
       ELSE /\ Len(logChan) < LogChanCap
            /\ logChan' = Append(logChan,
                                 LogLine(p, CurrentContainer(p), lineNo[p]))
            /\ ppc' = [ppc EXCEPT ![p] = "scan"]
            /\ UNCHANGED lpanic
    /\ UNCHANGED <<cidx, lineNo, openCalls, openFailed, openStreams>>
    /\ UNCHANGED <<logChanClosed, delivered>>
    /\ UNCHANGED <<gvars, cfgvars, lpc, lresult, cancelled>>
    /\ UNCHANGED outsideLog

SelectDone_NeedsRoom(p) ==
    /\ Running
    /\ ppc[p] = "select"
    /\ cancelled
    /\ Len(logChan) < LogChanCap
    /\ openStreams' = openStreams \ {<<p, CurrentContainer(p)>>}
    /\ ppc' = [ppc EXCEPT ![p] = "returned"]
    /\ UNCHANGED <<cidx, lineNo, openCalls, openFailed>>
    /\ UNCHANGED <<gvars, chvars, cfgvars, lpc, lresult, lpanic, cancelled>>
    /\ UNCHANGED outsideLog

\* select: case <-ctx.Done(): stream.Close(); return. Nothing is sent to
\* errCh.
SelectDone(p) ==
    /\ Running
    /\ ppc[p] = "select"
    /\ cancelled
    /\ openStreams' = openStreams \ {<<p, CurrentContainer(p)>>}
    /\ ppc' = [ppc EXCEPT ![p] = "returned"]
    /\ UNCHANGED <<cidx, lineNo, openCalls, openFailed>>
    /\ UNCHANGED <<gvars, chvars, cfgvars, lpc, lresult, lpanic, cancelled>>
    /\ UNCHANGED outsideLog

\* errCh <- nil: the goroutine ends.
SendNil(p) ==
    /\ Running
    /\ ppc[p] = "sendNil"
    /\ ErrChHasRoom(p)
    /\ SendErrCh(p, NoErr)
    /\ ppc' = [ppc EXCEPT ![p] = "done"]
    /\ UNCHANGED <<cidx, lineNo, openCalls, openFailed, openStreams>>
    /\ UNCHANGED <<gpc, nsTodo, curNs, received, lastErr, streamErr, errChan>>
    /\ UNCHANGED <<chvars, cfgvars, lpc, lresult, lpanic, cancelled>>
    /\ UNCHANGED outsideLog

LogNext ==
    \/ CheckMaxPods
    \/ Signal
    \/ Consume
    \/ ConsumeEnd
    \/ ReadErrChan
    \/ StreamCall
    \/ StreamRecv
    \/ StreamReturn
    \/ StreamFinish
    \/ \E p \in Pods : OpenFail(p)
    \/ \E p \in Pods : OpenOk(p)
    \/ \E p \in Pods : SendOpenErr(p)
    \/ \E p \in Pods : ScanLine(p)
    \/ \E p \in Pods : ScanEOF(p)
    \/ \E p \in Pods : ScanError(p)
    \/ \E p \in Pods : SendReadErr(p)
    \/ \E p \in Pods : SelectSend(p)
    \/ \E p \in Pods : SelectDone(p)
    \/ \E p \in Pods : SendNil(p)

(***************************************************************************)
(* MCP server                                                              *)
(***************************************************************************)
\* Standard JSON-RPC error codes.
ParseError == -32700
InvalidRequest == -32600
MethodNotFound == -32601
InvalidParams == -32602
InternalError == -32603

\* Lines read from stdin in one run, at most.
MaxInputLines == 2

\* The nil interface value of req.ID, marshalled as null.
Nil == "nil"

\* The id member of a line: absent, the JSON null, or a value.
IdFields == {"absent", "null", "a", "b"}

Methods == {"initialize", "initialized", "tools/list", "tools/call", "ping"}

\* A line of stdin, as far as the server reads it: text that is not JSON,
\* a JSON value that does not unmarshal into JSONRPCRequest (a member of
\* the wrong type), or an object with its id, jsonrpc and method members;
\* for tools/call, whether params unmarshal and whether the tool succeeds.
LineShapes ==
    {[syntax |-> "malformed", id |-> "absent", jsonrpc |-> "", method |-> "",
      tool |-> "none"]}
    \cup {[syntax |-> "mistyped", id |-> "a", jsonrpc |-> "2.0",
           method |-> "", tool |-> "none"]}
    \cup {[syntax |-> "object", id |-> i, jsonrpc |-> v, method |-> m,
           tool |-> "none"] :
             i \in IdFields, v \in {"2.0", "1.0"},
             m \in Methods \ {"tools/call"}}
    \cup {[syntax |-> "object", id |-> i, jsonrpc |-> v,
           method |-> "tools/call", tool |-> t] :
             i \in IdFields, v \in {"2.0", "1.0"},
             t \in {"badparams", "fails", "ok"}}

\* json.Unmarshal(line, &req): an error, or the request with ID nil when
\* the id member is absent or null.
Unmarshal(line) ==
    IF line.syntax # "object"
    THEN [err |-> TRUE, JSONRPC |-> "", ID |-> Nil, Method |-> "",
          tool |-> "none"]
    ELSE [err |-> FALSE, JSONRPC |-> line.jsonrpc,
          ID |-> IF line.id \in {"absent", "null"} THEN Nil ELSE line.id,
          Method |-> line.method, tool |-> line.tool]

\* sendResult and sendError: the response written to stdout.
ResultResponse(id) == [ID |-> id, Error |-> FALSE, Code |-> 0]
ErrorResponse(id, code) == [ID |-> id, Error |-> TRUE, Code |-> code]

\* handleToolsCall
handleToolsCall(req) ==
    IF req.tool = "badparams" THEN <<ErrorResponse(req.ID, InvalidParams)>>
    ELSE IF req.tool = "fails" THEN <<ErrorResponse(req.ID, InternalError)>>
    ELSE <<ResultResponse(req.ID)>>

\* handleRequest: the responses written for a parsed request.
handleRequest(req) ==
    LET isNotification == req.ID = Nil IN
    IF req.JSONRPC # "2.0"
    THEN IF ~isNotification THEN <<ErrorResponse(req.ID, InvalidRequest)>>
         ELSE <<>>
    ELSE CASE req.Method = "initialize" -> <<ResultResponse(req.ID)>>
           [] req.Method = "initialized" -> <<>>
           [] req.Method = "tools/list" -> <<ResultResponse(req.ID)>>
           [] req.Method = "tools/call" -> handleToolsCall(req)
           [] OTHER -> IF ~isNotification
                       THEN <<ErrorResponse(req.ID, MethodNotFound)>>
                       ELSE <<>>

\* One iteration of Run's loop: the responses written for a line.
HandleLine(line) ==
    LET req == Unmarshal(line) IN
    IF req.err THEN <<ErrorResponse(Nil, ParseError)>>
    ELSE handleRequest(req)

McpIdle ==
    /\ mpc = "running"
    /\ mlines = <<>>
    /\ replies = <<>>
    /\ stdout = <<>>

\* scanner.Scan() returns a line; it is parsed and handled.
McpScan ==
    /\ mpc = "running"
    /\ Len(mlines) < MaxInputLines
    /\ \E line \in LineShapes :
          /\ mlines' = Append(mlines, line)
          /\ replies' = Append(replies, HandleLine(line))
          /\ stdout' = stdout \o HandleLine(line)
    /\ UNCHANGED mpc
    /\ UNCHANGED outsideMcp

\* scanner.Scan() returns false at the end of stdin: Run returns nil.
McpEOF ==
    /\ mpc = "running"
    /\ mpc' = "stopped"
    /\ UNCHANGED <<mlines, replies, stdout>>
    /\ UNCHANGED outsideMcp

\* scanner.Scan() returns false on a read error (a line too long for the
\* scanner among them): Run returns the error.
McpReadError ==
    /\ mpc = "running"
    /\ mpc' = "failed"
    /\ UNCHANGED <<mlines, replies, stdout>>
    /\ UNCHANGED outsideMcp

McpNext ==
    \/ McpScan
    \/ McpEOF
    \/ McpReadError

(***************************************************************************)
(* File cache                                                              *)
(***************************************************************************)
\* The clock stops advancing at MaxNow; TTLs are at most MaxTTL.
MaxNow == 2
MaxTTL == 1

\* c.dir, as path segments below the root.
CacheDir == <<"cache", "lissto">>

\* Keys, as the segments between the separators of the key string.
CacheKeys == {<<"a">>, <<"..", "a">>, <<"a", "b">>}

CacheData == {"x", "y"}
TTLs == -1..MaxTTL

\* filepath.Clean on the segments of an absolute path.
RECURSIVE CleanFrom(_, _, _)
CleanFrom(segs, i, acc) ==
    IF i > Len(segs) THEN acc
    ELSE IF segs[i] = "." THEN CleanFrom(segs, i + 1, acc)
    ELSE IF segs[i] = ".."
         THEN CleanFrom(segs, i + 1,
                        IF acc = <<>> THEN <<>>
                        ELSE SubSeq(acc, 1, Len(acc) - 1))
    ELSE CleanFrom(segs, i + 1, Append(acc, segs[i]))

\* c.path(key): filepath.Join(c.dir, key + ".yaml")
path(key) ==
    CleanFrom(CacheDir \o [key EXCEPT ![Len(key)] = @ \o ".yaml"], 1, <<>>)

DirOf(p) == SubSeq(p, 1, Len(p) - 1)

CachePaths == {path(k) : k \in CacheKeys}

NoFile == [present |-> FALSE, data |-> "", expires |-> 0]

\* What the entry written by Set unmarshals to in Get: the data and the
\* expires-at time.
FileOf(data, expires) == [present |-> TRUE, data |-> data, expires |-> expires]

\* The directories that exist: the parents of c.dir, and c.dir once
\* EnsureDir has made it. The cache makes no other directory.
DirExists(d) ==
    \/ Len(d) < Len(CacheDir) /\ d = SubSeq(CacheDir, 1, Len(d))
    \/ d = CacheDir /\ dirMade

NoHistory == [op |-> "none", data |-> "", expires |-> 0]
NoCall == [op |-> "none", key |-> <<>>, found |-> FALSE, data |-> "",
           err |-> FALSE, at |-> 0]

\* time.Now().After(ExpiresAt)
Expired(f) == cnow > f.expires

CacheIdle ==
    /\ cnow = 0
    /\ dirMade = FALSE
    /\ files = [p \in CachePaths |-> NoFile]
    /\ hist = [k \in CacheKeys |-> NoHistory]
    /\ call = NoCall

\* Time passes.
CacheTick ==
    /\ cnow < MaxNow
    /\ cnow' = cnow + 1
    /\ UNCHANGED <<dirMade, files, hist, call>>
    /\ UNCHANGED outsideCache

\* Set(key, data, ttl): EnsureDir, then the entry is written to c.path(key).
CacheSet ==
    /\ \E k \in CacheKeys, d \in CacheData, ttl \in TTLs :
          /\ dirMade' = TRUE
          /\ IF DirOf(path(k)) = CacheDir \/ DirExists(DirOf(path(k)))
             THEN /\ files' = [files EXCEPT ![path(k)] = FileOf(d, cnow + ttl)]
                  /\ hist' = [hist EXCEPT ![k] =
                                 [op |-> "set", data |-> d, expires |-> cnow + ttl]]
                  /\ call' = [op |-> "set", key |-> k, found |-> FALSE,
                              data |-> "", err |-> FALSE, at |-> cnow]
             ELSE /\ call' = [op |-> "set", key |-> k, found |-> FALSE,
                              data |-> "", err |-> TRUE, at |-> cnow]
                  /\ UNCHANGED <<files, hist>>
    /\ UNCHANGED cnow
    /\ UNCHANGED outsideCache

\* Get(key, dest): not found when the file does not exist or the entry has
\* expired, else the data.
CacheGet ==
    /\ \E k \in CacheKeys :
          LET f == files[path(k)] IN
          call' = IF ~f.present \/ Expired(f)
                  THEN [op |-> "get", key |-> k, found |-> FALSE, data |-> "",
                        err |-> FALSE, at |-> cnow]
                  ELSE [op |-> "get", key |-> k, found |-> TRUE,
                        data |-> f.data, err |-> FALSE, at |-> cnow]
    /\ UNCHANGED <<cnow, dirMade, files, hist>>
    /\ UNCHANGED outsideCache

\* Delete(key): os.Remove, a missing file is not an error.
CacheDelete ==
    /\ \E k \in CacheKeys :
          /\ files' = [files EXCEPT ![path(k)] = NoFile]
          /\ hist' = [hist EXCEPT ![k] = [NoHistory EXCEPT !.op = "delete"]]
          /\ call' = [op |-> "delete", key |-> k, found |-> FALSE,
                      data |-> "", err |-> FALSE, at |-> cnow]
    /\ UNCHANGED <<cnow, dirMade>>
    /\ UNCHANGED outsideCache

\* Clear(): every .yaml entry of c.dir is removed; a missing directory is
\* not an error.
CacheClear ==
    /\ files' = [p \in CachePaths |->
                    IF dirMade /\ DirOf(p) = CacheDir THEN NoFile ELSE files[p]]
    /\ hist' = [k \in CacheKeys |-> [NoHistory EXCEPT !.op = "clear"]]
    /\ call' = [op |-> "clear", key |-> <<>>, found |-> FALSE, data |-> "",
                err |-> FALSE, at |-> cnow]
    /\ UNCHANGED <<cnow, dirMade>>
    /\ UNCHANGED outsideCache

CacheNext ==
    \/ CacheTick
    \/ CacheSet
    \/ CacheGet
    \/ CacheDelete
    \/ CacheClear

(***************************************************************************)
(* Specifications                                                          *)
(***************************************************************************)
ReadyInit == ReadyIdle /\ TunnelIdle /\ LogIdle /\ McpIdle /\ CacheIdle

ReadySpec == ReadyInit /\ [][ReadyNext]_vars

TunnelInit == ReadyIdle /\ TunnelStart /\ LogIdle /\ McpIdle /\ CacheIdle

TunnelSpec == TunnelInit /\ [][TunnelNext]_vars

\* The select of startPortForward is taken once a case is ready (the timer
\* always fires), and the forwarder goroutine keeps running: its dial
\* returns, and it leaves its wait once stopChan is closed.
TunnelFairSpec ==
    /\ TunnelSpec
    /\ WF_vars(WaitReady \/ WaitTimeout \/ WaitCancelled)
    /\ WF_vars(FwdDialFail \/ FwdListen)
    /\ WF_vars(FwdStop)

LogInit == ReadyIdle /\ TunnelIdle /\ LogStart /\ McpIdle /\ CacheIdle

LogSpec == LogInit /\ [][LogNext]_vars

McpInit == ReadyIdle /\ TunnelIdle /\ LogIdle /\ McpIdle /\ CacheIdle

McpSpec == McpInit /\ [][McpNext]_vars

CacheInit == ReadyIdle /\ TunnelIdle /\ LogIdle /\ McpIdle /\ CacheIdle

CacheSpec == CacheInit /\ [][CacheNext]_vars

(***************************************************************************)
(* Readiness: properties                                                   *)
(***************************************************************************)
StageOrder == <<"service", "ingress", "pods", "endpoints">>

IsPrefix(s, t) == Len(s) <= Len(t) /\ \A i \in 1..Len(s) : s[i] = t[i]

ReadinessReturned == rpc \in {"checked", "formatted"}

\* C7: CheckReadiness evaluates service, ingress, pods, endpoints in that
\* order and stops at the first stage that fails: that stage alone gives the
\* reason, no later stage is evaluated and every later boolean is false. A
\* missing service gives three false booleans and the reason "no service".
C7_ShortCircuit ==
    /\ IsPrefix(stages, StageOrder)
    /\ ReadinessReturned =>
          /\ svcErr =>
                /\ stages = <<"service">>
                /\ readiness =
                      [EmptyReadiness EXCEPT !.FailureReason = "no service"]
          /\ (~svcErr /\ (ingress.err \/ ingress.lb = 0)) =>
                /\ stages = <<"service", "ingress">>
                /\ readiness =
                      [EmptyReadiness EXCEPT !.ServiceExists = TRUE,
                                             !.FailureReason = "no lb yet"]
          /\ ~readiness.ServiceExists =>
                /\ ~readiness.IngressReady
                /\ ~readiness.PodsReady
                /\ ~readiness.EndpointsReady
                /\ readiness.FailureReason = "no service"
          /\ (readiness.ServiceExists /\ ~readiness.IngressReady) =>
                /\ ~readiness.PodsReady
                /\ ~readiness.EndpointsReady
                /\ readiness.FailureReason = "no lb yet"
          /\ (readiness.IngressReady /\ ~readiness.PodsReady) =>
                /\ stages = <<"service", "ingress", "pods">>
                /\ ~readiness.EndpointsReady
                /\ readiness.FailureReason = "pod not ready"
          /\ (readiness.PodsReady /\ ~readiness.EndpointsReady) =>
                readiness.FailureReason = "no endpoints"

\* The service is missing while the pods handed in are ready.
C7_Witness ==
    /\ rpc = "checked"
    /\ svcErr
    /\ arePodsReady(rpods)
    /\ readiness.FailureReason = "no service"

StageReasons == {"no service", "no lb yet", "pod not ready", "no endpoints"}

\* C8: a result that is not ready is displayed as "starting up.." while the
\* service is younger than one minute, whichever stage failed, and with the
\* reason of the failing stage once it is older than one minute; a ready
\* result is displayed without a reason at every age.
C8_AgeGatedReason ==
    rpc = "formatted" =>
        /\ readiness.IsReady => readyStatus = Green
        /\ (~readiness.IsReady /\ serviceAge < Minute) =>
              readyStatus = White("starting up..")
        /\ (~readiness.IsReady /\ serviceAge > Minute) =>
              /\ readiness.FailureReason \in StageReasons
              /\ readyStatus = White(readiness.FailureReason)

\* A young service whose pod stage failed is shown as starting up.
C8_Witness ==
    /\ rpc = "formatted"
    /\ serviceAge = 59
    /\ readiness.FailureReason = "pod not ready"
    /\ readyStatus = White("starting up..")

(***************************************************************************)
(* Tunnel and discovery: properties                                        *)
(***************************************************************************)
\* C3: the release function is idempotent: after any number of calls by the
\* caller that holds it, nothing has panicked and the tunnel is stopped.
C3_ReleaseIdempotent ==
    (stopOwner = "caller" /\ releaseCalls >= 1) =>
        (tpanic = "" /\ stopChan = "closed")

FastReturned == entry = "fast" /\ dpc = "returned"

\* C4: every DiscoverFast call invokes Setup exactly once, whatever the
\* outcome: never zero times, never again after a failure.
C4_SetupOnce ==
    /\ setupCalls <= 1
    /\ (entry = "fast" /\ dpc # "idle") => setupCalls = 1

\* DiscoverFast has returned the error of a failed Setup.
C4_Witness ==
    /\ FastReturned
    /\ derr = ErrSetup
    /\ setupErr = "no running pods found for service"

PublicOnly ==
    /\ info.PublicURL # ""
    /\ info.PortForwardURL = ""
    /\ ~info.StopPortForward
    /\ stopChan = "closed"

TunnelKept ==
    /\ info.PublicURL = ""
    /\ info.PortForwardURL = URL(localPort)
    /\ info.StopPortForward
    /\ stopOwner = "caller"
    /\ stopChan = "open"
    /\ fwd = "listening"
    /\ held = localPort

\* C5: when DiscoverFast returns successfully, exactly one of these holds:
\* the result has a public URL, no tunnel URL and no release function and
\* the tunnel is released; or it has no public URL, the tunnel URL and the
\* release function and the tunnel is open.
C5_PublicXorTunnel ==
    (FastReturned /\ derr = "" /\ releaseCalls = 0) =>
        /\ ~info.nil
        /\ PublicOnly \/ TunnelKept
        /\ ~(PublicOnly /\ TunnelKept)

\* DiscoverFast returned a public URL and the forwarder has let go of the port.
C5_Witness ==
    /\ FastReturned
    /\ derr = ""
    /\ info.PublicURL = "https://api.example.com"
    /\ stopChan = "closed"
    /\ fwd = "exited"

\* C6: a successful Setup that found its preferred port busy runs on another
\* port; the port a forwarder binds is held by no other process when it is
\* bound, and stays the tunnel's alone until the tunnel is released.
C6_PortSafety ==
    /\ (spc = "ok" /\ portWasBusy) => localPort # PreferredPort
    /\ held # 0 => (held = localPort /\ held \notin others)
    /\ (spc = "ok" /\ stopChan = "open") => held = localPort

\* The preferred port was busy, the first alternative was taken by another
\* process as well, and the tunnel runs on the next one.
C6_Witness ==
    /\ spc = "ok"
    /\ portWasBusy
    /\ held = PreferredPort + 2
    /\ (PreferredPort + 1) \in others

ProbeFailed(r) ==
    \/ r.err
    \/ r.status \notin 200..299
    \/ ~r.body.wellformed

\* C10: when Setup succeeded and the probe fails (transport error, non-2xx
\* status, malformed payload), DiscoverFast has released the tunnel when it
\* returns, and it returns a DiscoveryFailed error and no result.
C10_ProbeFailureReleases ==
    (FastReturned /\ spc = "ok" /\ ProbeFailed(resp)) =>
        /\ stopChan = "closed"
        /\ derr \in DiscoveryFailed
        /\ info = NilInfo
        /\ stopOwner = "nobody"

\* The probe answered 500 and the tunnel is released.
C10_Witness ==
    /\ FastReturned
    /\ spc = "ok"
    /\ resp.status = 500
    /\ derr = ErrStatus
    /\ stopChan = "closed"

(***************************************************************************)
(* Properties of the log multiplexer                                       *)
(***************************************************************************)
\* The (pod, container) readers of pod p that have not terminated: the one
\* being opened or read, and those of the containers still to come.
ReadersLeft(p) ==
    CASE ppc[p] = "idle" -> Len(Containers(p))
      [] ppc[p] \in {"open", "scan", "select"} ->
            1 + (Len(Containers(p)) - cidx[p])
      [] ppc[p] \in {"sendOpenErr", "sendReadErr"} ->
            Len(Containers(p)) - cidx[p]
      [] OTHER -> 0

\* C1: the sink (logChan) is closed only after every per-(pod, container)
\* reader has terminated, also when some readers fail at once. The code
\* closes it while readers are still to run or running.
C1_SinkClosedAfterReaders ==
    logChanClosed => \A p \in Pods : ReadersLeft(p) = 0

\* C2: once the session is cancelled it does not deadlock: until runLogs
\* has returned (or the process has panicked) some step of the session
\* remains possible, so that the readers exit, StreamLogsMulti returns and
\* the sink is closed. The code reaches a cancelled state in which no
\* goroutine can ever step again.
C2_CancelNoDeadlock ==
    (cancelled /\ Running) => ENABLED LogNext

\* C9: when more pods are selected than max-pods allows, runLogs fails with
\* the max-pods error and no log stream is opened: no StreamLogs call, no
\* pod goroutine, no streaming goroutine.
C9_MaxPodsNoStream ==
    Len(filteredPods) > logsMaxPods =>
        /\ openCalls = 0
        /\ openStreams = {}
        /\ gpc = "notStarted"
        /\ \A p \in Pods : ppc[p] = "idle"
        /\ lpc \in {"start", "failed"}
        /\ lpc = "failed" => lresult = ErrMaxPods

C9_Witness ==
    /\ Len(filteredPods) = logsMaxPods + 1
    /\ lpc = "failed"
    /\ lresult = ErrMaxPods
    /\ openCalls = 0

(***************************************************************************)
(* Properties of startPortForward                                          *)
(***************************************************************************)
ErrTunnelTimeout == "timeout waiting for port-forward to be ready"
ErrTunnelCancelled == "context cancelled while waiting for port-forward"

\* The forwarding goroutine was started by this Setup.
ForwarderStarted == fwd # "none"

\* C11: once the forwarding goroutine is started, Setup succeeds only after
\* the readiness signal; a Setup that fails after the start fails with the
\* timeout error or, the context being cancelled, with the cancellation
\* error, and has closed stopChan before it returns; the wait always ends,
\* and a forwarder told to stop exits.
C11_WaitOutcome ==
    /\ [](spc = "ok" => (readyChan = "closed" /\ ForwarderStarted))
    /\ []((spc = "err" /\ ForwarderStarted) =>
             /\ setupErr \in {ErrTunnelTimeout, ErrTunnelCancelled}
             /\ setupErr = ErrTunnelCancelled => ctxDone
             /\ stopChan = "closed")
    /\ [](setupErr \in {ErrTunnelTimeout, ErrTunnelCancelled} =>
             (spc = "err" /\ ForwarderStarted))
    /\ (spc = "wait") ~> (spc \in {"ok", "err"})
    /\ (spc = "err" /\ ForwarderStarted) ~> (fwd = "exited" /\ held = 0)

C11_Witness ==
    /\ spc = "err"
    /\ setupErr = ErrTunnelCancelled
    /\ fwd = "exited"
    /\ stopChan = "closed"
    /\ readyChan = "closed"

(***************************************************************************)
(* Properties of CheckServiceReadiness under failing dependencies          *)
(***************************************************************************)
StageRan(name) == \E i \in 1..Len(stages) : stages[i] = name

\* A cluster call CheckServiceReadiness made has failed: GetService,
\* GetIngressForService (the listing failed or no ingress was found) or
\* ListEndpointSlices.
DependencyFailed ==
    \/ StageRan("service") /\ svcErr
    \/ StageRan("ingress") /\ ingress.err
    \/ StageRan("endpoints") /\ endpointSlices.err

InCheck == rpc \in {"service", "ingress", "pods", "endpoints"}

\* C12: CheckServiceReadiness always returns a result and never an error:
\* every stage completes whatever its cluster call returns, and whenever a
\* cluster call has failed the result is not ready and carries one of the
\* four reasons; a result without a reason is a ready one.
C12_NeverErrors ==
    /\ InCheck => ENABLED ReadyNext
    /\ ReadinessReturned =>
          /\ DependencyFailed =>
                (~readiness.IsReady /\ readiness.FailureReason \in StageReasons)
          /\ readiness.IsReady <=> readiness.FailureReason = ""
          /\ readiness.FailureReason \in StageReasons \cup {""}

C12_Witness ==
    /\ rpc = "checked"
    /\ ~svcErr
    /\ ~ingress.err
    /\ endpointSlices.err
    /\ ~readiness.IsReady
    /\ readiness.FailureReason = "no endpoints"

(***************************************************************************)
(* Properties of the log multiplexer under per-pair failures               *)
(***************************************************************************)
\* C13: when StreamLogs fails for some (pod, container) pairs and nothing
\* is cancelled, the session does not complete (logChan is not closed)
\* while a pair whose stream opened is still being read. The code closes
\* logChan with such streams open.
C13_OpenFailureKeepsOthers ==
    (openFailed # {} /\ ~cancelled /\ logChanClosed) => openStreams = {}

(***************************************************************************)
(* Properties of line delivery                                             *)
(***************************************************************************)
\* The lines of pod p that have entered the sink, in the order they entered
\* it: those printed, then those still buffered in logChan.
RECURSIVE Buffered(_, _)
Buffered(p, i) ==
    IF i > Len(logChan) THEN <<>>
    ELSE IF logChan[i].PodName = p
         THEN <<<<logChan[i].Container, logChan[i].Message>>>> \o Buffered(p, i + 1)
         ELSE Buffered(p, i + 1)

SinkLines(p) == delivered[p] \o Buffered(p, 1)

C15_OpenTunnelHasHolder ==
    (dpc = "returned" /\ spc = "ok" /\ stopChan = "open") =>
        stopOwner = "caller"

(***************************************************************************)
(* Properties of the MCP server                                            *)
(***************************************************************************)
\* A JSON-RPC message without an id: the line unmarshals and has no id
\* member.
IsNotificationLine(line) == line.syntax = "object" /\ line.id = "absent"

\* A request carrying an id.
IsRequestLine(line) == line.syntax = "object" /\ line.id \in {"a", "b"}

\* C16: no response is written for a message without an id, whatever its
\* method and jsonrpc version. The code answers initialize, tools/list and
\* tools/call messages that have no id.
C16_NotificationSilent ==
    \A i \in 1..Len(mlines) :
        IsNotificationLine(mlines[i]) => replies[i] = <<>>

RECURSIVE Flatten(_, _)
Flatten(ss, i) == IF i > Len(ss) THEN <<>> ELSE ss[i] \o Flatten(ss, i + 1)

\* C17: every line that is a request with an id gets exactly one response,
\* with that id, in reading order; it is the error -32600 for a jsonrpc
\* version other than "2.0" and -32601 for an unknown method; a line that
\* is not JSON gets exactly one -32700 error and the server goes on. The
\* code writes nothing for a request with an id whose method is
\* "initialized".
C17_OneResponsePerRequest ==
    /\ stdout = Flatten(replies, 1)
    /\ \A i \in 1..Len(mlines) :
          LET line == mlines[i]
              r == replies[i]
          IN /\ IsRequestLine(line) =>
                   /\ Len(r) = 1
                   /\ r[1].ID = line.id
                   /\ line.jsonrpc # "2.0" =>
                         (r[1].Error /\ r[1].Code = InvalidRequest)
                   /\ (line.jsonrpc = "2.0" /\ line.method = "ping") =>
                         (r[1].Error /\ r[1].Code = MethodNotFound)
             /\ line.syntax = "malformed" => r = <<ErrorResponse(Nil, ParseError)>>

(***************************************************************************)
(* Properties of the file cache                                            *)
(***************************************************************************)
\* The last operation on key k that succeeded was a Set whose entry has
\* not expired.
LiveSet(k) == hist[k].op = "set" /\ ~(cnow > hist[k].expires)

\* C18: Get(key) never fails; at the time of the call it reports found exactly when the last
\* operation on the key was a Set that has not expired, and then with the
\* data of that Set; Delete never fails. The code reports found for a key
\* whose file lies outside the cache directory after Clear.
C18_GetMatchesHistory ==
    /\ (call.op = "get" /\ call.at = cnow) =>
          /\ ~call.err
          /\ call.found <=> LiveSet(call.key)
          /\ call.found => call.data = hist[call.key].data
    /\ call.op = "delete" => ~call.err

(***************************************************************************)
(* Properties of SetupPortForward's checks                                 *)
(***************************************************************************)
ErrGetService == "failed to get service"
ErrNoPorts == "service has no ports defined"
ErrListPods == "failed to list pods for service"
ErrNoBackingPods == "no pods found for service"
ErrNoRunningPods == "no running pods found for service"
ErrNoPortAvailable == "port is already in use and no alternative ports available"

ServiceNotFound == {ErrGetService, ErrNoPorts}

CheckErrors ==
    ServiceNotFound \cup
        {ErrListPods, ErrNoBackingPods, ErrNoRunningPods, ErrNoPortAvailable}

ServiceUsable == ~service.err /\ Len(service.ports) > 0

\* C19: SetupPortForward checks the service (found, with a port), then the
\* pod list (non-empty), then for a Running pod, then for a local port, and
\* fails with the error of the first check that fails: an error of a later
\* check means the earlier ones passed, and a failed check lets nothing
\* later run. On each of these failures no forwarder was started and no
\* local port is bound.
C19_CheckOrder ==
    /\ (spc \notin {"idle", "service"} /\ ~ServiceUsable) =>
          /\ spc = "err"
          /\ setupErr = (IF service.err THEN ErrGetService ELSE ErrNoPorts)
    /\ (spc = "err" /\ setupErr \in CheckErrors \ ServiceNotFound) =>
          ServiceUsable
    /\ (spc = "err" /\ setupErr = ErrNoBackingPods) => svcPods = <<>>
    /\ (spc = "err" /\ setupErr = ErrNoRunningPods) =>
          (svcPods # <<>> /\ FirstRunning(svcPods) = 0)
    /\ (spc = "err" /\ setupErr = ErrNoPortAvailable) =>
          /\ targetPod.phase = "Running"
          /\ portWasBusy
          /\ port = PreferredPort + ProbeSpan
    /\ (spc \in {"port", "probing", "target", "start", "wait", "ok"}) =>
          (ServiceUsable /\ targetPod.phase = "Running")
    /\ (spc = "err" /\ setupErr \in CheckErrors) =>
          (fwd = "none" /\ held = 0 /\ stopChan = "none")

C19_Witness ==
    /\ spc = "err"
    /\ setupErr = ErrNoPortAvailable
    /\ ServiceUsable
    /\ targetPod.phase = "Running"
    /\ fwd = "none"
    /\ held = 0

(***************************************************************************)
(* Properties of the target pod                                            *)
(***************************************************************************)
NoneRunning(pods) == \A i \in 1..Len(pods) : pods[i].phase # "Running"

\* The pod list has been read and a target chosen or the call failed.
PodsListed == spc \notin {"idle", "service", "pods"} /\ ServiceUsable

\* C20: the target pod is the first pod of the list, in the order ListPods
\* returned it, whose phase is Running; a pod in another phase is never
\* the target; and SetupPortForward fails with the no-running-pods error
\* exactly when the list is non-empty and has no Running pod.
C20_FirstRunningPod ==
    /\ spc = "port" =>
          \E i \in 1..Len(svcPods) :
              /\ targetPod = svcPods[i]
              /\ svcPods[i].phase = "Running"
              /\ \A j \in 1..(i - 1) : svcPods[j].phase # "Running"
    /\ targetPod # NoPod => targetPod.phase = "Running"
    /\ (PodsListed /\ spc \notin {"err"}) => targetPod.phase = "Running"
    /\ PodsListed =>
          ((spc = "err" /\ setupErr = ErrNoRunningPods)
              <=> (svcPods # <<>> /\ NoneRunning(svcPods) /\ targetPod = NoPod))

C20_Witness ==
    /\ spc = "port"
    /\ Len(svcPods) = 2
    /\ svcPods[1].phase = "Pending"
    /\ svcPods[2].phase = "Running"
    /\ targetPod = svcPods[2]

(***************************************************************************)
(* Properties of the remote port SetupPortForward forwards to              *)
(***************************************************************************)
\* The port declarations of a pod that carry the given name, as
\* <<container index, port index>>.
NamedPorts(pod, name) ==
    UNION { { <<i, j>> : j \in {k \in 1..Len(pod.containers[i]) :
                                   pod.containers[i][k].Name = name} } :
            i \in 1..Len(pod.containers) }

\* The first of them, scanning containers, then ports, in order.
FirstNamedPort(pod, name) ==
    CHOOSE a \in NamedPorts(pod, name) :
        \A b \in NamedPorts(pod, name) :
            a[1] < b[1] \/ (a[1] = b[1] /\ a[2] <= b[2])

\* SetupPortForward has resolved the remote port and handed it to
\* startPortForward.
TargetResolved == spc \in {"start", "wait", "ok"}

\* C21: the remote port Setup forwards to is the service's numeric target
\* port when it is numeric; otherwise the container port of the chosen pod's
\* first port declaration (containers, then ports, in order) whose name is
\* the named target port; otherwise, when the name resolves to nothing or no
\* target port is given, the service's declared port number.
C21_TargetPortResolution ==
    TargetResolved =>
        LET tp == service.ports[1] IN
        /\ tp.IntVal # 0 => targetPort = tp.IntVal
        /\ (tp.IntVal = 0 /\ tp.StrVal # ""
               /\ NamedPorts(targetPod, tp.StrVal) # {}) =>
              LET a == FirstNamedPort(targetPod, tp.StrVal) IN
              targetPort = targetPod.containers[a[1]][a[2]].ContainerPort
        /\ (tp.IntVal = 0 /\ tp.StrVal # ""
               /\ NamedPorts(targetPod, tp.StrVal) = {}) =>
              targetPort = tp.Port
        /\ (tp.IntVal = 0 /\ tp.StrVal = "") => targetPort = tp.Port

\* A named target port that two declarations of the chosen pod carry, in a
\* container that is not the first: the first declaration's port is used.
C21_Witness ==
    /\ spc = "ok"
    /\ service.ports[1].IntVal = 0
    /\ service.ports[1].StrVal = "http"
    /\ Cardinality(NamedPorts(targetPod, "http")) = 2
    /\ targetPort = 3000

(***************************************************************************)
(* Properties of the local port SetupPortForward chooses                   *)
(***************************************************************************)
\* The next 100 ports above the preferred one.
NextPorts == (PreferredPort + 1)..(PreferredPort + ProbeSpan)

\* Ports no other process takes or releases while Setup runs.
SteadyPorts == NextPorts \ EnvPorts

\* SetupPortForward is past its choice of the local port.
PortChosen == spc \in {"target", "start", "wait", "ok"}

\* C22: the local port Setup chooses is the preferred port when that is
\* free, otherwise the lowest free port among the next 100 ports above it,
\* and Setup fails with the no-port-available error only when none of those
\* 100 ports is free (stated for the ports whose state does not change
\* while Setup runs).
C22_NextHundredPorts ==
    /\ (PortChosen /\ ~portWasBusy) => localPort = PreferredPort
    /\ (PortChosen /\ portWasBusy) =>
          /\ localPort \in NextPorts
          /\ \A p \in SteadyPorts : p < localPort => p \in others
    /\ (spc = "err" /\ setupErr = ErrNoPortAvailable) =>
          \A p \in SteadyPorts : p \in others

(***************************************************************************)
(* Properties of the probe's status check                                  *)
(***************************************************************************)
\* The 2xx range of HTTP statuses.
Status2xx == 200..299

\* C23: DiscoverFast fails on the probe's status only when the status is
\* outside the 2xx range: a response with a 2xx status and a well-formed
\* payload reaches the public-URL decision and yields a successful result.
C23_Any2xxProceeds ==
    (FastReturned /\ spc = "ok" /\ ~resp.err /\ resp.status \in Status2xx
        /\ resp.body.wellformed) =>
        /\ derr = ""
        /\ ~info.nil

(***************************************************************************)
(* Properties of the readers' independence                                 *)
(***************************************************************************)
\* The stream of pod p's current container is open.
StreamOpen(p) == <<p, CurrentContainer(p)>> \in openStreams

\* Container i of pod p is still to be opened once the containers before it
\* are done.
HeldBack(p, i) == cidx[p] < i /\ i <= Len(Containers(p))

\* C24: the reader of each (pod, container) pair makes progress
\* independently of every other pair: no pair's reader is held back until
\* the stream of another pair, of the same pod or of another pod of the
\* session, has ended, so lines of one container are delivered while
\* another container's stream is still open.
C24_ReadersIndependent ==
    /\ \A p \in Pods : \A i \in 1..Len(Containers(p)) :
          ~(HeldBack(p, i) /\ StreamOpen(p))
    /\ gpc = "waiting" => \A p \in PodsIn(curNs) : ppc[p] # "idle"

(***************************************************************************)
(* Properties of the error StreamLogsMulti returns                         *)
(***************************************************************************)
\* StreamLogsMulti has returned lastErr for the namespace curNs.
StreamReturned == curNs # 0 /\ gpc \in {"next", "done"}

\* A pair of the session has recorded an error: an open failure, or a read
\* error that is sent or about to be sent.
ErrorRecorded ==
    \/ \E pr \in openFailed : pr[1] \in PodsIn(curNs)
    \/ \E p \in PodsIn(curNs) : ppc[p] = "sendReadErr"
    \/ \E i \in 1..Len(errCh[curNs]) : errCh[curNs][i] # NoErr

\* An error of the session that the wait loop has not received.
ErrorPending ==
    \/ \E p \in PodsIn(curNs) : ppc[p] \in {"sendOpenErr", "sendReadErr"}
    \/ \E i \in 1..Len(errCh[curNs]) : errCh[curNs][i] # NoErr

\* C25: StreamMany returns a non-nil error if and only if a (pod,
\* container) pair recorded an open or read error during the session; the
\* error returned is the last one recorded, and it is returned only after
\* the whole session has completed.
C25_ReturnsLastError ==
    StreamReturned =>
        /\ ErrorRecorded => lastErr # NoErr
        /\ lastErr # NoErr =>
              (lastErr.kind \in {"open", "read"} /\ lastErr.pod \in PodsIn(curNs))
        /\ ~ErrorPending
        /\ \A p \in PodsIn(curNs) : ppc[p] \in {"done", "returned"}

(***************************************************************************)
(* Properties of the pod stage and the endpoint stage                      *)
(***************************************************************************)
\* Every container status of the pod reports ready.
ContainersReady(pod) == \A k \in 1..Len(pod.ready) : pod.ready[k]

\* The pod stage has been evaluated on rpods (its result is not reset
\* before the next row starts).
PodStageDone == StageRan("pods") /\ rpc # "pods"

\* C26: the pod stage of CheckReadiness passes if and only if the pod set
\* is non-empty and every pod whose phase is not Succeeded is in phase
\* Running with every one of its containers reporting ready; an empty pod
\* set never passes, and a Pending or Failed pod or a not-ready container
\* makes the stage fail with reason "pod not ready".
C26_PodStage ==
    PodStageDone =>
        /\ readiness.PodsReady <=>
              /\ Len(rpods) > 0
              /\ \A i \in 1..Len(rpods) :
                    rpods[i].phase # "Succeeded" =>
                        (rpods[i].phase = "Running" /\ ContainersReady(rpods[i]))
        /\ ~readiness.PodsReady => readiness.FailureReason = "pod not ready"
        /\ Len(rpods) = 0 => ~readiness.PodsReady
        /\ (\E i \in 1..Len(rpods) :
               \/ rpods[i].phase \in {"Pending", "Failed"}
               \/ rpods[i].phase = "Running" /\ ~ContainersReady(rpods[i])) =>
              (~readiness.PodsReady /\ readiness.FailureReason = "pod not ready")

\* The stage passes with a Succeeded pod whose container is not ready next
\* to a ready Running pod.
C26_Witness ==
    /\ PodStageDone
    /\ readiness.PodsReady
    /\ Len(rpods) = 2
    /\ rpods[1].phase = "Succeeded"
    /\ ~ContainersReady(rpods[1])
    /\ rpods[2].phase = "Running"

\* The endpoint stage has been evaluated.
EndpointStageDone == StageRan("endpoints")

\* C27: the endpoint stage of CheckReadiness passes if and only if at least
\* one endpoint slice listed for the service has at least one endpoint
\* whose ready condition is true or unset; no slices, slices without
\* endpoints, or only endpoints with ready = false make the stage fail with
\* reason "no endpoints".
C27_EndpointStage ==
    EndpointStageDone =>
        LET sl == endpointSlices.items IN
        /\ readiness.EndpointsReady <=>
              /\ ~endpointSlices.err
              /\ \E i \in 1..Len(sl) : \E j \in 1..Len(sl[i]) :
                    sl[i][j] \in {"true", "nil"}
        /\ ~readiness.EndpointsReady => readiness.FailureReason = "no endpoints"
        /\ (\A i \in 1..Len(sl) : \A j \in 1..Len(sl[i]) : sl[i][j] = "false") =>
              (~readiness.EndpointsReady
               /\ readiness.FailureReason = "no endpoints")

\* The only ready endpoint has an unset ready condition, in the second
\* slice, behind a slice whose endpoint is not ready.
C27_Witness ==
    /\ EndpointStageDone
    /\ readiness.EndpointsReady
    /\ endpointSlices.items = << <<"false">>, <<"nil">> >>

(***************************************************************************)
(* Properties of a reader blocked on the delivery channel                  *)
(***************************************************************************)
\* Pod p's reader is in its select with a line to send and logChan is full.
BlockedOnSend(p) == ppc[p] = "select" /\ Len(logChan) = LogChanCap

\* C28: a reader blocked sending a line into the full delivery channel can
\* leave through the cancellation case of its select as soon as the shared
\* cancellation signal has fired, without the consumer receiving anything,
\* and a reader that has left this way has closed its stream.
C28_BlockedReaderExits ==
    \A p \in Pods :
        /\ (Running /\ BlockedOnSend(p) /\ cancelled) => ENABLED SelectDone(p)
        /\ ppc[p] = "returned" =>
              (cancelled /\ \A pr \in openStreams : pr[1] # p)

\* A reader has left on cancellation with its second line unsent: its first
\* line still fills the channel and the consumer has received nothing.
C28_Witness ==
    \E p \in Pods :
        /\ ppc[p] = "returned"
        /\ lineNo[p] = 2
        /\ logChan = <<LogLine(p, CurrentContainer(p), 1)>>
        /\ \A q \in Pods : delivered[q] = <<>>
        /\ lpc = "consume"

(***************************************************************************)
(* Properties of the pod goroutines at the return of StreamLogsMulti       *)
(***************************************************************************)
\* Pod p's goroutine has ended.
Finished(p) == ppc[p] \in {"done", "returned"}

\* Pod p's goroutine is at a send on errCh and the channel's buffer is
\* full.
BlockedOnErrCh(p) ==
    /\ ppc[p] \in {"sendOpenErr", "sendReadErr", "sendNil"}
    /\ ~ErrChHasRoom(p)

\* C29: for every combination of per-container open and read failures,
\* StreamLogsMulti returns only after each of its pod goroutines has
\* finished, and after it has returned (when nothing receives from the
\* error channel any more) no goroutine is blocked sending on it.
C29_NoGoroutineLeftBehind ==
    StreamReturned =>
        \A p \in PodsIn(curNs) : Finished(p) /\ ~BlockedOnErrCh(p)

(***************************************************************************)
(* Properties of runLogs over several namespaces                           *)
(***************************************************************************)
\* Namespaces whose StreamLogsMulti call has not been made.
NotCalled == IF gpc = "waiting" THEN nsTodo \ {curNs} ELSE nsTodo

\* Error values handed to the consumer so far: the one in errChan and the
\* one runLogs has read.
ErrorsHanded == Len(errChan) + (IF lpc = "done" THEN 1 ELSE 0)

\* C30: the sessions run one namespace at a time: no pod goroutine of a
\* namespace exists before the calls for the namespaces taken before it have
\* returned; the sink is closed only after the last call has returned;
\* exactly one error value is handed to the consumer, so that the consumer,
\* once it has drained the closed sink, reads the error without blocking.
C30_OneNamespaceAtATime ==
    /\ \A p \in Pods : filteredPods[p].ns \in NotCalled => ppc[p] = "idle"
    /\ gpc = "waiting" => curNs \in nsTodo
    /\ logChanClosed <=> gpc = "done"
    /\ gpc = "done" => (nsTodo = {} /\ ErrorsHanded = 1)
    /\ gpc # "done" => ErrorsHanded = 0
    /\ (lpc = "readErr" /\ lpanic = "") => ENABLED ReadErrChan

\* Pods of two namespaces were streamed, the second session after the
\* first, and runLogs has read the one error value.
C30_Witness ==
    /\ lpc = "done"
    /\ gpc = "done"
    /\ Cardinality(Namespaces) = 2
    /\ \A p \in Pods : delivered[p] # <<>>
    /\ errChan = <<>>
====
